---------------------------- MODULE Spec2Model ----------------------------
(***************************************************************************)
(* Model of the Spiko analytics backend: the schema validator, the metrics *)
(* calculator, the session recorder (log_session) and the startup seeding, *)
(* over a relational store of users, session_usage and feedback_summary    *)
(* rows.                                                                   *)
(*                                                                         *)
(* Representation.  Python values are tagged records (field t).  A number  *)
(* (int or float) is held in tenths, x10, so 6.5 is x10 = 65 and the       *)
(* validator's limits 0 and 9 are x10 = 0 and x10 = 90; float('nan') is    *)
(* its own value because every ordering comparison with it is False.       *)
(* Durations and timestamps are whole seconds; the date of a row is a      *)
(* whole day.                                                              *)
(***************************************************************************)
EXTENDS Integers, Sequences, FiniteSets, TLC

VARIABLES
    users,      \* rows of table users
    sessions,   \* rows of table session_usage
    feedback,   \* rows of table feedback_summary
    origin,     \* history: session_usage id -> the code path and data it came from
    started,    \* the application has been imported (create_all + seed_database ran)
    call,       \* the last operation: its name, arguments and returned value
    vin,        \* argument of the validator under test
    vout,       \* what the validator did with vin
    inflight,   \* requests in progress: request -> its position and local values
    seeded,     \* history: how often seed_database inserted the user, the samples
    foreign_keys \* the store of this deployment checks foreign keys

vars ==
    <<users, sessions, feedback, origin, started, call, vin, vout, inflight, seeded,
      foreign_keys>>

----------------------------------------------------------------------------
(* Python values *)

PyNone == [t |-> "None"]
PyNaN == [t |-> "nan"]
PyBool(b) == [t |-> "bool", b |-> b]
PyInt(i) == [t |-> "int", i |-> i]
Num(x10) == [t |-> "num", x10 |-> x10]
\* a str, known by which of the keys looked up in it occur as substrings
PyStr(has) == [t |-> "str", has |-> has]
\* a str, known by its text
PyLiteral(s) == [t |-> "literal", s |-> s]
\* a list, known by which strings are among its items
PyList(items) == [t |-> "list", items |-> items]
PyDict(d) == [t |-> "dict", d |-> d]
EmptyDict == PyDict(<<>>)

\* the outcome of a call: a returned value or a raised exception
Return(ok, reason) == [kind |-> "return", ok |-> ok, reason |-> reason]
Raise(exc) == [kind |-> "raise", exc |-> exc]
NoReason == [msg |-> "None"]
Reason(msg, field) == [msg |-> msg, field |-> field]

\* key in container / key not in container: defined for dict (keys), list
\* (items) and str (substring); any other operand raises TypeError
SupportsIn(c) == c.t \in {"dict", "list", "str"}
PyIn(key, c) ==
    CASE c.t = "dict" -> key \in DOMAIN c.d
      [] c.t = "list" -> key \in c.items
      [] c.t = "str" -> key \in c.has
      [] OTHER -> FALSE

\* container[key] with a str key: defined for a dict only
SupportsStrIndex(c) == c.t = "dict"

\* isinstance(v, (int, float)): bool is a subclass of int, nan is a float
IsIntOrFloat(v) == v.t \in {"num", "nan", "bool", "int"}

\* the value of a number in tenths (True is 1, False is 0)
Tenths(v) ==
    CASE v.t = "num" -> v.x10
      [] v.t = "int" -> v.i * 10
      [] v.t = "bool" -> IF v.b THEN 10 ELSE 0
      [] OTHER -> 0

\* a == b: numbers (bool included) compare by value, nan equals nothing
PyEquals(a, b) ==
    IF a.t \in {"num", "int", "bool"} /\ b.t \in {"num", "int", "bool"}
    THEN Tenths(a) = Tenths(b)
    ELSE a.t # "nan" /\ a = b

\* v < n and v > n for a number v and an int literal n; False for nan
PyLess(v, n) == v.t # "nan" /\ Tenths(v) < n * 10
PyGreater(v, n) == v.t # "nan" /\ Tenths(v) > n * 10

----------------------------------------------------------------------------
(* Schema validator: analytics.py validate_analysis_data *)

required_fields == <<"criteria_scores", "overall_band", "actionable_insights">>

expected_criteria ==
    <<"fluency_coherence", "lexical_resource", "grammatical_range_accuracy", "pronunciation">>

ScoreMin == 0
ScoreMax == 9

\* not isinstance(score, (int, float)) or score < 0 or score > 9
ScoreRejected(score) ==
    ~IsIntOrFloat(score) \/ PyLess(score, ScoreMin) \/ PyGreater(score, ScoreMax)

\* for field in required_fields: if field not in analysis_data: return ...
RECURSIVE CheckRequired(_, _)
CheckRequired(analysis_data, i) ==
    IF i > Len(required_fields) THEN Return(TRUE, NoReason)
    ELSE IF ~PyIn(required_fields[i], analysis_data)
         THEN Return(FALSE, Reason("Missing required field", required_fields[i]))
         ELSE CheckRequired(analysis_data, i + 1)

MissingCriterion(criterion) == Reason("Missing criterion score", criterion)
InvalidScore(criterion) ==
    Reason("Invalid score: must be a number between 0 and 9", criterion)

\* a validator that tests the presence of all four criteria before any range
CheckCriteria_presence_first(criteria_scores, i) ==
    LET idx == 1..Len(expected_criteria)
        missing == {j \in idx : ~PyIn(expected_criteria[j], criteria_scores)}
        first(S) == CHOOSE j \in S : \A k \in S : j <= k
    IN  IF ~SupportsIn(criteria_scores) THEN Raise("TypeError")
        ELSE IF missing # {}
        THEN Return(FALSE, MissingCriterion(expected_criteria[first(missing)]))
        ELSE IF ~SupportsStrIndex(criteria_scores) THEN Raise("TypeError")
        ELSE LET bad == {j \in idx : ScoreRejected(criteria_scores.d[expected_criteria[j]])}
             IN  IF bad # {}
                 THEN Return(FALSE, InvalidScore(expected_criteria[first(bad)]))
                 ELSE Return(TRUE, NoReason)

\* for criterion in expected_criteria: the presence test, then the range test
RECURSIVE CheckCriteria(_, _)
CheckCriteria(criteria_scores, i) ==
    IF i > Len(expected_criteria) THEN Return(TRUE, NoReason)
    ELSE LET criterion == expected_criteria[i] IN
         IF ~SupportsIn(criteria_scores) THEN Raise("TypeError")
         ELSE IF ~PyIn(criterion, criteria_scores)
         THEN Return(FALSE, MissingCriterion(criterion))
         ELSE IF ~SupportsStrIndex(criteria_scores) THEN Raise("TypeError")
         ELSE IF ScoreRejected(criteria_scores.d[criterion])
         THEN Return(FALSE, InvalidScore(criterion))
         ELSE CheckCriteria(criteria_scores, i + 1)

\* the overall band: 'score' not in overall_band, then the range test
CheckOverallBand(overall_band) ==
    IF ~SupportsIn(overall_band) THEN Raise("TypeError")
    ELSE IF ~PyIn("score", overall_band)
    THEN Return(FALSE, Reason("Missing overall band score", "overall_band"))
    ELSE IF ~SupportsStrIndex(overall_band) THEN Raise("TypeError")
    ELSE IF ScoreRejected(overall_band.d["score"])
    THEN Return(FALSE,
                Reason("Invalid overall band score: must be a number between 0 and 9",
                       "overall_band"))
    ELSE Return(TRUE, NoReason)

Criteria == {expected_criteria[i] : i \in 1..Len(expected_criteria)}
RequiredFields == {required_fields[i] : i \in 1..Len(required_fields)}

\* the checks of validate_analysis_data once analysis_data is known to be a dict
ValidateDict(analysis_data) ==
    LET req == CheckRequired(analysis_data, 1) IN
    IF ~req.ok THEN req
    ELSE LET crit == CheckCriteria(analysis_data.d["criteria_scores"], 1) IN
         IF crit.kind = "raise" \/ ~crit.ok THEN crit
         ELSE CheckOverallBand(analysis_data.d["overall_band"])

\* a validator that also rejects a criteria_scores holding any other key
validate_analysis_data_exact(analysis_data) ==
    IF analysis_data.t # "dict"
    THEN Return(FALSE, Reason("Analysis data must be a dictionary", "analysis_data"))
    ELSE LET v == ValidateDict(analysis_data) IN
         IF v.kind = "return" /\ v.ok
            /\ DOMAIN analysis_data.d["criteria_scores"].d # Criteria
         THEN Return(FALSE, Reason("Unexpected criterion", "criteria_scores"))
         ELSE v

validate_analysis_data(analysis_data) ==
    IF analysis_data.t # "dict"
    THEN Return(FALSE, Reason("Analysis data must be a dictionary", "analysis_data"))
    ELSE ValidateDict(analysis_data)

Accepted(v) == v.kind = "return" /\ v.ok

----------------------------------------------------------------------------
(* Metrics calculator: analytics.py calculate_session_metrics *)

\* a transcript: its characters, each a letter "w" or a blank " "
Text(chars) == [t |-> "text", chars |-> chars]

\* a timestamp argument: an ISO string (with a Z/offset or without), a string
\* datetime.fromisoformat rejects, or a datetime object
IsoStr(at, aware) == [t |-> "isostr", at |-> at, aware |-> aware]
BadStr == [t |-> "badstr"]
DateTime(at, aware) == [t |-> "datetime", at |-> at, aware |-> aware]

\* truth value of an argument: None, the empty string and 0 are falsy
Truthy(v) ==
    ~(v.t = "None" \/ (v.t = "text" /\ v.chars = <<>>) \/ (v.t = "int" /\ v.i = 0))

WordCount_characters(chars) == Cardinality({i \in 1..Len(chars) : chars[i] # " "})
\* len(transcript.split()): the maximal runs of non-blank characters
WordCount(chars) ==
    Cardinality({i \in 1..Len(chars) :
                    chars[i] # " " /\ (i = 1 \/ chars[i - 1] = " ")})

\* the datetime a timestamp becomes, or the exception fromisoformat raises
ParseTime(ts) ==
    CASE ts.t = "isostr" -> DateTime(ts.at, ts.aware)
      [] ts.t = "badstr" -> Raise("ValueError")
      [] OTHER -> ts

\* an exception was raised instead of a value returned
Raised(x) == "kind" \in DOMAIN x /\ x.kind = "raise"

\* a number of seconds
Seconds(n) == [kind |-> "seconds", n |-> n]

\* (end_time - start_time).total_seconds(): a string that does not parse, an
\* operand that is no datetime, and an aware minus a naive datetime raise
Subtract(start_time, end_time) ==
    LET s == ParseTime(start_time)
        e == ParseTime(end_time)
    IN  IF Raised(s) THEN s
        ELSE IF Raised(e) THEN e
        ELSE IF s.t # "datetime" \/ e.t # "datetime" THEN Raise("TypeError")
        ELSE IF s.aware # e.aware THEN Raise("TypeError")
        ELSE Seconds(e.at - s.at)

\* except Exception as e: ...; duration = 0
DurationCaught_reraises(raised) == raised
DurationCaught(raised) == Seconds(0)

\* the try block and its except branch
ElapsedSeconds(start_time, end_time) ==
    LET d == Subtract(start_time, end_time)
    IN  IF Raised(d) THEN DurationCaught(d) ELSE d

\* n / d rounded to the nearest integer, a tie to the even one (d > 0, n >= 0)
RoundDiv(n, d) ==
    LET q == n \div d
        r == n % d
    IN  IF 2 * r < d THEN q
        ELSE IF 2 * r > d THEN q + 1
        ELSE IF q % 2 = 0 THEN q ELSE q + 1

\* the returned dict; wpm is held in hundredths
calculate_session_metrics(transcript, start_time, end_time) ==
    IF ~Truthy(transcript)
    THEN [words_spoken |-> 0, duration |-> 0, wpm |-> 0]
    ELSE LET words_spoken == WordCount(transcript.chars)
             duration == IF Truthy(start_time) /\ Truthy(end_time)
                         THEN ElapsedSeconds(start_time, end_time)
                         ELSE Seconds(0)
         IN  IF Raised(duration) THEN duration
             ELSE [words_spoken |-> words_spoken,
                   duration |-> IF duration.n > 0 THEN duration.n ELSE 0,
                   wpm |-> IF duration.n > 0
                           THEN RoundDiv(words_spoken * 60 * 100, duration.n)
                           ELSE 0]

----------------------------------------------------------------------------
(* The store: models.py *)

\* the primary key given to a new row: one more than the largest in the table
NextId_from_zero(rows) ==
    IF rows = {} THEN 0
    ELSE (CHOOSE i \in {r.id : r \in rows} : \A r \in rows : r.id <= i) + 1
NextId(rows) ==
    IF rows = {} THEN 1
    ELSE (CHOOSE i \in {r.id : r \in rows} : \A r \in rows : r.id <= i) + 1

User(id, username, email) == [id |-> id, username |-> username, email |-> email]

SessionUsage(id, user_id, session_id_str, duration, words_spoken, date) ==
    [id |-> id, user_id |-> user_id, session_id_str |-> session_id_str,
     duration |-> duration, words_spoken |-> words_spoken, date |-> date]

FeedbackSummary(id, session_usage_id, band_scores, feedback_text) ==
    [id |-> id, session_usage_id |-> session_usage_id,
     band_scores |-> band_scores, feedback_text |-> feedback_text]

\* json.dumps: the JSON document written for a Python value
RECURSIVE Dumps(_)
Dumps(v) ==
    CASE v.t = "None" -> [j |-> "null"]
      [] v.t = "bool" -> [j |-> IF v.b THEN "true" ELSE "false"]
      [] v.t = "num" -> [j |-> "number", x10 |-> v.x10]
      [] v.t = "int" -> [j |-> "number", x10 |-> v.i * 10]
      [] v.t = "nan" -> [j |-> "NaN"]
      [] v.t = "str" -> [j |-> "string", has |-> v.has]
      [] v.t = "text" -> [j |-> "string", chars |-> v.chars]
      [] v.t = "list" -> [j |-> "array", items |-> v.items]
      [] v.t = "dict" -> [j |-> "object", m |-> [k \in DOMAIN v.d |-> Dumps(v.d[k])]]

\* json.loads: the Python value read from a JSON document
RECURSIVE Loads(_)
Loads(doc) ==
    CASE doc.j = "null" -> PyNone
      [] doc.j = "true" -> PyBool(TRUE)
      [] doc.j = "false" -> PyBool(FALSE)
      [] doc.j = "number" -> Num(doc.x10)
      [] doc.j = "NaN" -> PyNaN
      [] doc.j = "string" /\ "has" \in DOMAIN doc -> PyStr(doc.has)
      [] doc.j = "string" /\ "chars" \in DOMAIN doc -> Text(doc.chars)
      [] doc.j = "array" -> PyList(doc.items)
      [] doc.j = "object" -> PyDict([k \in DOMAIN doc.m |-> Loads(doc.m[k])])

\* dict.get(key, default)
Get(dict, key, default) == IF key \in DOMAIN dict.d THEN dict.d[key] ELSE default

\* the session's pending rows and the committed tables
Tables(s, f) == [sessions |-> s, feedback |-> f]

\* db.session.rollback(): the committed tables stay, the pending rows go
Rollback_keeps_pending(committed, pending) == pending
Rollback(committed, pending) == committed

\* where the store may fail while log_session writes and reads back
WriteFailures == {"insert_usage", "insert_feedback", "commit"}
FailPoints == {"none"} \cup WriteFailures \cup {"refresh"}

\* db.session.add(usage); db.session.add(feedback); db.session.commit():
\* the tables afterwards, rolled back by the except branch when a step fails
WritePair(committed, usage, fb, fail) ==
    LET t1 == Tables(committed.sessions \cup {usage}, committed.feedback)
        t2 == Tables(t1.sessions, t1.feedback \cup {fb})
    IN  CASE fail = "insert_usage" -> Rollback(committed, committed)
          [] fail = "insert_feedback" -> Rollback(committed, t1)
          [] fail = "commit" -> Rollback(committed, t2)
          [] OTHER -> t2

----------------------------------------------------------------------------
(* Session recorder: analytics.py log_session *)

DefaultDuration == 900

\* the marker log_session returns on failure, and the id it returns on success
ReturnFalse == PyBool(FALSE)
ReturnId(id) == PyInt(id)

\* except Exception as e: db.session.rollback(); ...; return False
Caught_reraises(raised) == raised
Caught(raised) == ReturnFalse

\* duration if duration is not None else metrics["duration"]; 0 becomes 900
ResolveDuration_keeps_zero(duration, metrics) ==
    IF duration.t # "None" THEN duration.i ELSE metrics.duration
ResolveDuration(duration, metrics) ==
    LET session_duration == IF duration.t # "None" THEN duration.i ELSE metrics.duration
    IN  IF session_duration = 0 THEN DefaultDuration ELSE session_duration

\* the validator's verdict sends log_session to "return False": it rejected
\* the data, or it raised and the except branch took over
Refused_allows_missing_field(v) ==
    v.kind = "raise" \/ (~v.ok /\ v.reason.msg # "Missing required field")
Refused(v) == v.kind = "raise" \/ ~v.ok

\* complete_band_scores = criteria_scores.copy(); [...]['overall_band'] = overall_band
CompleteBandScores(analysis_data) ==
    PyDict(("overall_band" :> Get(analysis_data, "overall_band", EmptyDict))
           @@ Get(analysis_data, "criteria_scores", EmptyDict).d)

ComprehensiveFeedback(analysis_data, transcript, questions_and_answers) ==
    PyDict("actionable_insights" :> Get(analysis_data, "actionable_insights", EmptyDict)
           @@ "word_analysis" :> Get(analysis_data, "word_analysis", EmptyDict)
           @@ "questions_and_answers" :>
                 (IF questions_and_answers.t = "None" THEN PyList({})
                  ELSE questions_and_answers)
           @@ "original_transcript" :> transcript)

\* what one call does: the tables afterwards, the returned value and whether a
\* pair was written
log_session(committed, user_id, session_id_str, analysis_data, duration, transcript, start_time, end_time, questions_and_answers, fail, utcnow) ==
    LET v == validate_analysis_data(analysis_data) IN
    IF Refused(v)
    THEN [tables |-> committed,
          ret |-> IF v.kind = "raise" THEN Caught(v) ELSE ReturnFalse,
          wrote |-> FALSE]
    ELSE IF Raised(calculate_session_metrics(transcript, start_time, end_time))
    THEN [tables |-> committed,
          ret |-> Caught(calculate_session_metrics(transcript, start_time, end_time)),
          wrote |-> FALSE]
    ELSE LET metrics == calculate_session_metrics(transcript, start_time, end_time)
             session_duration == ResolveDuration(duration, metrics)
             new_session_usage ==
                 SessionUsage(NextId(committed.sessions), user_id, session_id_str,
                              session_duration, metrics.words_spoken, utcnow)
             feedback_summary ==
                 FeedbackSummary(NextId(committed.feedback), new_session_usage.id,
                                 Dumps(CompleteBandScores(analysis_data)),
                                 Dumps(ComprehensiveFeedback(analysis_data, transcript,
                                                             questions_and_answers)))
             after == WritePair(committed, new_session_usage, feedback_summary, fail)
         IN  [tables |-> after,
              ret |-> IF fail = "none" THEN ReturnId(new_session_usage.id)
                      ELSE Caught(Raise("SQLAlchemyError")),
              wrote |-> new_session_usage \in after.sessions]

----------------------------------------------------------------------------
(* Startup seeding: flask_app.py seed_database *)

SeedDuration == 900
SeedWords == 150

Scores(fc, lr, gra, p) ==
    PyDict("fluency_coherence" :> Num(fc) @@ "lexical_resource" :> Num(lr)
           @@ "grammatical_range_accuracy" :> Num(gra) @@ "pronunciation" :> Num(p))

MockSession(session_id_str, days, scores, overall_score) ==
    [session_id_str |-> session_id_str, days_ago |-> days, scores |-> scores,
     overall_score |-> overall_score]

mock_sessions_data ==
    << MockSession("session_1", 20, Scores(60, 65, 55, 60), Num(60)),
       MockSession("session_2", 15, Scores(65, 60, 60, 65), Num(65)),
       MockSession("session_3", 10, Scores(70, 65, 60, 65), Num(65)),
       MockSession("session_4", 5, Scores(70, 70, 65, 70), Num(70)),
       MockSession("session_1", 1, Scores(75, 75, 70, 75), Num(75)) >>

\* the dict a sample row is built from, as a Python value
MockData(data) ==
    PyDict("session_id_str" :> PyStr({}) @@ "scores" :> data.scores
           @@ "overall_score" :> data.overall_score)

\* band_scores_with_overall = data["scores"].copy(); [...]['overall_band'] = {"score": ...}
SeedBandScores(data) ==
    PyDict(("overall_band" :> PyDict("score" :> data.overall_score)) @@ data.scores.d)

SeedFeedbackText == PyDict("feedback_summary" :> PyList({}))

\* the rows the loop over mock_sessions_data adds: the n-th sample gets the
\* n-th key after the largest one in each table
SeedSessions(last_id, user_id, today) ==
    {SessionUsage(last_id + n, user_id, mock_sessions_data[n].session_id_str,
                  SeedDuration, SeedWords, today - mock_sessions_data[n].days_ago)
        : n \in 1..Len(mock_sessions_data)}

SeedFeedback(last_id, last_session_id) ==
    {FeedbackSummary(last_id + n, last_session_id + n,
                     Dumps(SeedBandScores(mock_sessions_data[n])), Dumps(SeedFeedbackText))
        : n \in 1..Len(mock_sessions_data)}

\* where the store may fail while seed_database writes
SeedFailPoints == {"none", "commit_user", "commit_sessions"}

----------------------------------------------------------------------------
(* Analytics readers: analytics.py *)

\* what a handler returns: jsonify(body) with a status
Respond(status, body) == [kind |-> "return", status |-> status, body |-> body]
Error(msg) == [error |-> msg]

\* stored text that is no JSON document
Garbage == [j |-> "garbage"]

\* json.loads(text): the value, or the exception on text that does not parse
JsonLoads(text) == IF text = Garbage THEN Raise("JSONDecodeError") ELSE Loads(text)

\* session.feedback: the feedback_summary row linked to the session, if any
NoRow == [id |-> 0]
FeedbackOf(f, session_usage_id) ==
    LET linked == {x \in f : x.session_usage_id = session_usage_id}
    IN  IF linked = {} THEN NoRow
        ELSE CHOOSE x \in linked : \A y \in linked : x.id <= y.id

\* .order_by(SessionUsage.date.asc()).all(): every order the rows may come in,
\* rows of equal date in any order
RECURSIVE OrderByDateAsc_by_id(_)
OrderByDateAsc_by_id(rows) ==
    IF rows = {} THEN {<<>>}
    ELSE UNION {UNION {{<<r>> \o t : t \in OrderByDateAsc_by_id(rest)} : rest \in {rows \ {r}}}
                  : r \in {x \in rows : \A y \in rows : x.id <= y.id}}
RECURSIVE OrderByDateAsc(_)
OrderByDateAsc(rows) ==
    IF rows = {} THEN {<<>>}
    ELSE UNION {UNION {{<<r>> \o t : t \in OrderByDateAsc(rest)} : rest \in {rows \ {r}}}
                  : r \in {x \in rows : \A y \in rows : x.date <= y.date}}

\* one element of progress_data, or the exception raised while building it
ProgressEntry(f, session) ==
    LET fb == FeedbackOf(f, session.id)
        band_scores == IF fb = NoRow THEN EmptyDict ELSE JsonLoads(fb.band_scores)
    IN  IF Raised(band_scores) THEN band_scores
        ELSE IF band_scores.t # "dict" THEN Raise("AttributeError")
        ELSE LET overall_band == Get(band_scores, "overall_band", EmptyDict) IN
             IF overall_band.t # "dict" THEN Raise("AttributeError")
             ELSE [session_usage_id |-> session.id,
                   session_id_str |-> session.session_id_str,
                   date |-> session.date,
                   overall_score |-> Get(overall_band, "score", PyNone),
                   scores |-> band_scores]

\* sum(s.duration for s in sessions)
RECURSIVE SumDurations(_, _)
SumDurations(order, n) ==
    IF n = 0 THEN 0 ELSE order[n].duration + SumDurations(order, n - 1)

\* the handler's outcome when the query returned the user's rows as order
get_user_analytics(u, f, user_id, order) ==
    IF ~\E user \in u : user.id = user_id
    THEN Respond(404, Error("User not found"))
    ELSE LET user == CHOOSE x \in u : x.id = user_id
             progress_data == [i \in 1..Len(order) |-> ProgressEntry(f, order[i])]
             failed == {i \in 1..Len(order) : Raised(progress_data[i])}
         IN  IF failed # {}
             THEN progress_data[CHOOSE i \in failed : \A j \in failed : i <= j]
             ELSE Respond(200,
                          [user_id |-> user.id,
                           username |-> user.username,
                           total_sessions |-> Len(order),
                           total_practice_time_seconds |-> SumDurations(order, Len(order)),
                           progress_over_time |-> progress_data])

\* func.sum(SessionUsage.duration): the sum over the rows with id up to n
RECURSIVE SumUpTo(_, _)
SumUpTo(rows, n) ==
    IF n = 0 THEN 0
    ELSE (IF \E r \in rows : r.id = n THEN (CHOOSE r \in rows : r.id = n).duration ELSE 0)
         + SumUpTo(rows, n - 1)

SecondsPerHour == 3600

get_platform_summary_truncates(u, s) ==
    LET total == IF s = {} THEN 0 ELSE SumUpTo(s, NextId(s) - 1)
    IN  Respond(200,
                [total_users |-> Cardinality(u),
                 total_sessions_run |-> Cardinality(s),
                 total_hours_practiced |-> (total * 100) \div SecondsPerHour])
\* total_hours_practiced is held in hundredths: round(total / 3600, 2)
get_platform_summary(u, s) ==
    LET total == IF s = {} THEN 0 ELSE SumUpTo(s, NextId(s) - 1)
    IN  Respond(200,
                [total_users |-> Cardinality(u),
                 total_sessions_run |-> Cardinality(s),
                 total_hours_practiced |-> RoundDiv(total * 100, SecondsPerHour)])

\* group_by(session_id_str) with func.count
PopularGroups(s) ==
    {[session_id |-> sid, times_practiced |-> Cardinality({r \in s : r.session_id_str = sid})]
        : sid \in {r.session_id_str : r \in s}}

\* .order_by(count.desc()): every order the groups may come in, groups of
\* equal count in any order
RECURSIVE OrderByCountDesc_any(_)
OrderByCountDesc_any(groups) ==
    IF groups = {} THEN {<<>>}
    ELSE UNION {UNION {{<<g>> \o t : t \in OrderByCountDesc_any(rest)} : rest \in {groups \ {g}}}
                  : g \in groups}
RECURSIVE OrderByCountDesc(_)
OrderByCountDesc(groups) ==
    IF groups = {} THEN {<<>>}
    ELSE UNION {UNION {{<<g>> \o t : t \in OrderByCountDesc(rest)} : rest \in {groups \ {g}}}
                  : g \in {x \in groups :
                              \A y \in groups : x.times_practiced >= y.times_practiced}}

PopularLimit == 5

\* .limit(5).all() of the query that returned the groups as order
get_popular_sessions(order) ==
    Respond(200, SubSeq(order, 1, IF Len(order) < PopularLimit THEN Len(order)
                                  ELSE PopularLimit))

\* except (json.JSONDecodeError, Exception) as e: ...; return None
DetailCaught_reraises(raised) == raised
DetailCaught(raised) == PyNone

DefaultOverallBand ==
    PyDict("score" :> PyInt(0) @@ "summary" :> PyLiteral("No summary available"))

\* the dict built in the try block, or the exception raised on the way
SessionView(session_usage, fb) ==
    LET band_scores == JsonLoads(fb.band_scores)
        feedback_data == IF fb.feedback_text = PyNone THEN Raise("TypeError")
                         ELSE JsonLoads(fb.feedback_text)
    IN  IF Raised(band_scores) THEN band_scores
        ELSE IF Raised(feedback_data) THEN feedback_data
        ELSE IF feedback_data.t # "dict" \/ band_scores.t # "dict"
        THEN Raise("AttributeError")
        ELSE PyDict(
               "session_usage_id" :> PyInt(session_usage.id)
            @@ "session_id_str" :> PyLiteral(session_usage.session_id_str)
            @@ "date" :> PyInt(session_usage.date)
            @@ "duration" :> PyInt(session_usage.duration)
            @@ "words_spoken" :> PyInt(session_usage.words_spoken)
            @@ "criteria_scores" :>
                  PyDict([c \in Criteria |-> Get(band_scores, c, PyInt(0))])
            @@ "overall_band" :> Get(band_scores, "overall_band", DefaultOverallBand)
            @@ "actionable_insights" :>
                  Get(feedback_data, "actionable_insights", feedback_data)
            @@ "word_analysis" :> Get(feedback_data, "word_analysis", EmptyDict)
            @@ "questions_and_answers" :>
                  Get(feedback_data, "questions_and_answers", PyList({}))
            @@ "original_transcript" :>
                  Get(feedback_data, "original_transcript", Text(<<>>)))

get_session_analytics_data(s, f, session_usage_id) ==
    IF ~\E r \in s : r.id = session_usage_id THEN PyNone
    ELSE LET session_usage == CHOOSE r \in s : r.id = session_usage_id
             fb == FeedbackOf(f, session_usage_id)
         IN  IF fb = NoRow THEN PyNone
             ELSE LET view == SessionView(session_usage, fb)
                  IN  IF Raised(view) THEN DetailCaught(view) ELSE view

get_session_analytics(s, f, session_usage_id) ==
    LET data == get_session_analytics_data(s, f, session_usage_id)
    IN  IF data = PyNone
        THEN Respond(404, Error("Session not found or no feedback data available"))
        ELSE Respond(200, data)

----------------------------------------------------------------------------
(* Accounts: auth.py register_user, delete_user_account *)

\* the handler's outcome and the users table afterwards; "" is a field that
\* the request does not hold
register_user(u, username, email, password) ==
    IF username = "" \/ email = "" \/ password = ""
    THEN [users |-> u, ret |-> Respond(400, Error("Missing username, email, or password"))]
    ELSE IF \E x \in u : x.username = username
    THEN [users |-> u, ret |-> Respond(409, Error("Username already exists"))]
    ELSE IF \E x \in u : x.email = email
    THEN [users |-> u, ret |-> Respond(409, Error("Email address already registered"))]
    ELSE LET new_user == User(NextId(u), username, email)
         IN  [users |-> u \cup {new_user}, ret |-> Respond(201, new_user)]

\* where the store may fail while delete_user_account works
DeleteFailPoints == {"none", "delete_feedback", "delete_sessions", "commit"}

\* for session in user_sessions: the first feedback row of the session, if
\* there is one, is deleted
FirstFeedbacks_none(f, user_sessions) == {}
FirstFeedbacks(f, user_sessions) ==
    {FeedbackOf(f, session.id) : session \in user_sessions} \ {NoRow}

\* cascade="all, delete-orphan" at db.session.delete(user): the rows removed
\* with the user, and with each of these sessions
CascadeOfUser(s, f, user_id) ==
    LET owned == {r \in s : r.user_id = user_id}
    IN  [sessions |-> owned,
         feedback |-> {x \in f : \E r \in owned : x.session_usage_id = r.id}]

\* the handler's outcome and the three tables afterwards
delete_user_account(u, s, f, user_id, fail) ==
    IF ~\E x \in u : x.id = user_id
    THEN [users |-> u, sessions |-> s, feedback |-> f,
          ret |-> Respond(404, Error("User not found"))]
    ELSE IF fail # "none"
    THEN [users |-> u, sessions |-> s, feedback |-> f,
          ret |-> Respond(500, Error("Failed to delete account"))]
    ELSE LET user_sessions == {r \in s : r.user_id = user_id}
             f1 == f \ FirstFeedbacks(f, user_sessions)
             s1 == s \ user_sessions
             cascade == CascadeOfUser(s1, f1, user_id)
         IN  [users |-> {x \in u : x.id # user_id},
              sessions |-> s1 \ cascade.sessions,
              feedback |-> f1 \ cascade.feedback,
              ret |-> Respond(200, [message |-> "Account deleted successfully"])]

----------------------------------------------------------------------------
(* Authentication of a request: flask_app.py login_required *)

\* the Authorization header: none, a token that does not decode (malformed,
\* expired, wrong signature), or a token whose payload holds this user_id
NoHeader == [kind |-> "no_header"]
BadToken == [kind |-> "bad_token"]
Token(user_id) == [kind |-> "token", user_id |-> user_id]

\* kwargs['user_id'] = user_id: the argument the view is called with
Overwrite_keeps_url(url_user_id, token_user_id) == url_user_id
Overwrite(url_user_id, token_user_id) == token_user_id

\* the decorator: 401, or the user_id the decorated view is called with;
\* url_user_id is the <int:user_id> of the route
login_required(u, auth_header, url_user_id) ==
    IF auth_header.kind = "no_header"
    THEN Respond(401, Error("Missing or invalid authorization header"))
    ELSE IF auth_header.kind = "bad_token"
    THEN Respond(401, Error("Invalid token"))
    ELSE IF auth_header.user_id = 0
    THEN Respond(401, Error("Invalid token payload"))
    ELSE IF ~\E user \in u : user.id = auth_header.user_id
    THEN Respond(401, Error("User not found"))
    ELSE [kind |-> "call", user_id |-> Overwrite(url_user_id, auth_header.user_id)]

----------------------------------------------------------------------------
(* The analysis request: flask_app.py analyze_speech *)

\* what the call of the AI service comes to: requests raises (no connection,
\* a timeout, an error status), the reply holds no JSON object, or the JSON
\* object parsed out of the reply
Unreachable == [kind |-> "unreachable"]
NoJson == [kind |-> "no_json"]
Parsed(analysis_result) == [kind |-> "json", data |-> analysis_result]

\* transcript.strip()
Strip(transcript) == Text(SelectSeq(transcript.chars, LAMBDA c : c # " "))

\* the request body is missing, empty or has no transcript
NoTranscript(data) ==
    data.t = "None" \/ DOMAIN data.d = {} \/ "transcript" \notin DOMAIN data.d

\* if session_usage_id: analysis_result['session_usage_id'] = session_usage_id
Reply(analysis_result, session_usage_id) ==
    IF session_usage_id.t = "int" /\ session_usage_id.i # 0
    THEN [analysis_result |-> analysis_result, session_usage_id |-> session_usage_id.i]
    ELSE [analysis_result |-> analysis_result]

\* POST /api/analyze by the logged-in user: the tables afterwards and the
\* response
analyze_speech(committed, user_id, data, ai, fail, utcnow) ==
    IF NoTranscript(data)
    THEN [tables |-> committed, ret |-> Respond(400, Error("Missing transcript"))]
    ELSE LET transcript == data.d["transcript"]
             session_id_str == Get(data, "session_id", PyLiteral("unknown_session")).s
             questions_and_answers == Get(data, "questions_and_answers", PyList({}))
         IN  IF ~Truthy(Strip(transcript))
             THEN [tables |-> committed,
                   ret |-> Respond(400, Error("Transcript cannot be empty."))]
             ELSE IF ai.kind = "unreachable"
             THEN [tables |-> committed,
                   ret |-> Respond(503, Error("Failed to connect to the AI analysis service."))]
             ELSE IF ai.kind = "no_json"
             THEN [tables |-> committed,
                   ret |-> Respond(500, Error("An unexpected server error occurred during analysis."))]
             ELSE LET done == log_session(committed, user_id, session_id_str, ai.data,
                                          PyNone, transcript, PyNone, PyNone,
                                          questions_and_answers, fail, utcnow)
                  IN  [tables |-> done.tables,
                       ret |-> Respond(200, Reply(ai.data, done.ret))]

----------------------------------------------------------------------------
(* Operations *)

\* whether the store checks foreign keys: the default SQLite file does not
\* (no PRAGMA foreign_keys), a PostgreSQL DATABASE_URL does
ForeignKeys == BOOLEAN

InitStore ==
    /\ users = {}
    /\ sessions = {}
    /\ feedback = {}
    /\ origin = <<>>
    /\ started = FALSE
    /\ call = [op |-> "none"]
    /\ inflight = <<>>
    /\ seeded = [user |-> 0, samples |-> 0]

\* what datetime.utcnow() reads when the application is imported, in days
Today == 20

\* a bound on the sessions that requests record
MaxLogged == 2

\* the session_usage rows that log_session wrote
Logged == {id \in DOMAIN origin : origin[id].path = "log_session"}

\* the application is imported: db.create_all() and seed_database().  An
\* exception of a commit leaves the import, and the application is not up.
Startup(fail) ==
    /\ vin' = vin /\ vout' = vout /\ inflight' = inflight
    /\ foreign_keys' = foreign_keys
    /\ seeded' = IF users # {} THEN seeded
                  ELSE [user |-> seeded.user + (IF fail = "commit_user" THEN 0 ELSE 1),
                        samples |-> seeded.samples + (IF fail = "none" THEN 1 ELSE 0)]
    /\ IF users # {}
       THEN /\ started' = TRUE
            /\ call' = [op |-> "startup", seeded |-> FALSE, fail |-> "none"]
            /\ UNCHANGED <<users, sessions, feedback, origin>>
       ELSE LET default_user == User(NextId(users), "SpikoUser", "user@spiko.ai")
                last_session_id == NextId(sessions) - 1
                last_feedback_id == NextId(feedback) - 1
                samples == 1..Len(mock_sessions_data)
            IN  /\ call' = [op |-> "startup", seeded |-> fail = "none", fail |-> fail]
                /\ started' = (fail = "none")
                /\ users' = IF fail = "commit_user" THEN users ELSE users \cup {default_user}
                /\ sessions' = IF fail = "none"
                               THEN sessions \cup SeedSessions(last_session_id, default_user.id, Today)
                               ELSE sessions
                /\ feedback' = IF fail = "none"
                               THEN feedback \cup SeedFeedback(last_feedback_id, last_session_id)
                               ELSE feedback
                /\ origin' =
                      IF fail = "none"
                      THEN [id \in DOMAIN origin \cup {last_session_id + n : n \in samples} |->
                              IF id \in {last_session_id + n : n \in samples}
                              THEN [path |-> "seed_database",
                                    source |-> MockData(mock_sessions_data[id - last_session_id])]
                              ELSE origin[id]]
                      ELSE origin

\* one request's call of log_session, by an existing user, the store's
\* behaviour during it and the clock's reading
LogSession(user_id, session_id_str, analysis_data, duration, transcript, start_time, end_time, questions_and_answers, fail, utcnow) ==
    /\ started
    /\ Cardinality(Logged) < MaxLogged
    /\ user_id \in {u.id : u \in users}
    /\ \E done \in {log_session(Tables(sessions, feedback), user_id, session_id_str,
                               analysis_data, duration, transcript, start_time,
                               end_time, questions_and_answers, fail, utcnow)} :
       LET new == done.tables.sessions \ sessions
       IN  /\ sessions' = done.tables.sessions
           /\ feedback' = done.tables.feedback
           /\ origin' = [id \in DOMAIN origin \cup {r.id : r \in new} |->
                           IF id \in {r.id : r \in new}
                           THEN [path |-> "log_session", source |-> analysis_data]
                           ELSE origin[id]]
           /\ call' = [op |-> "log_session", user_id |-> user_id,
                       session_id_str |-> session_id_str,
                       analysis_data |-> analysis_data, duration |-> duration,
                       transcript |-> transcript, start_time |-> start_time,
                       end_time |-> end_time, fail |-> fail, ret |-> done.ret]
    /\ UNCHANGED <<users, started, vin, vout, inflight, seeded, foreign_keys>>

\* a call of calculate_session_metrics
Metrics(transcript, start_time, end_time) ==
    /\ call' = [op |-> "calculate_session_metrics", transcript |-> transcript,
                start_time |-> start_time, end_time |-> end_time,
                ret |-> calculate_session_metrics(transcript, start_time, end_time)]
    /\ UNCHANGED <<users, sessions, feedback, origin, started, vin, vout, inflight, seeded, foreign_keys>>

\* POST /api/analyze by an existing user, what the AI service answers, the
\* store's behaviour during the write and the clock's reading; new holds the
\* identifiers of the session_usage rows the request committed
AnalyzeSpeech(user_id, data, ai, fail, utcnow) ==
    /\ started
    /\ Cardinality(Logged) < MaxLogged
    /\ user_id \in {u.id : u \in users}
    /\ \E done \in {analyze_speech(Tables(sessions, feedback), user_id, data, ai,
                                   fail, utcnow)} :
       LET new == done.tables.sessions \ sessions
       IN  /\ sessions' = done.tables.sessions
           /\ feedback' = done.tables.feedback
           /\ origin' = [id \in DOMAIN origin \cup {r.id : r \in new} |->
                           IF id \in {r.id : r \in new}
                           THEN [path |-> "log_session", source |-> ai.data]
                           ELSE origin[id]]
           /\ call' = [op |-> "analyze_speech", user_id |-> user_id, data |-> data,
                       ai |-> ai, fail |-> fail, new |-> {r.id : r \in new},
                       ret |-> done.ret]
    /\ UNCHANGED <<users, started, vin, vout, inflight, seeded, foreign_keys>>

\* POST /api/register
RegisterUser(username, email, password) ==
    /\ started
    /\ \E done \in {register_user(users, username, email, password)} :
          /\ users' = done.users
          /\ call' = [op |-> "register_user", username |-> username, email |-> email,
                      ret |-> done.ret]
    /\ UNCHANGED <<sessions, feedback, origin, started, vin, vout, inflight, seeded, foreign_keys>>

\* DELETE /api/me of the user with this id, and the store's behaviour during
\* it; had holds the identifiers of the user's sessions when the request came
DeleteUser(user_id, fail) ==
    /\ started
    /\ \E done \in {delete_user_account(users, sessions, feedback, user_id, fail)} :
          /\ users' = done.users
          /\ sessions' = done.sessions
          /\ feedback' = done.feedback
          /\ origin' = [id \in {r.id : r \in done.sessions} |-> origin[id]]
          /\ call' = [op |-> "delete_user_account", user_id |-> user_id, fail |-> fail,
                      had |-> {r.id : r \in {x \in sessions : x.user_id = user_id}},
                      ret |-> done.ret]
    /\ UNCHANGED <<started, vin, vout, inflight, seeded, foreign_keys>>

\* GET /api/analytics/user/<user_id>
GetUserAnalytics(user_id) ==
    /\ started
    /\ \E order \in OrderByDateAsc({r \in sessions : r.user_id = user_id}) :
          call' = [op |-> "get_user_analytics", user_id |-> user_id,
                   ret |-> get_user_analytics(users, feedback, user_id, order)]
    /\ UNCHANGED <<users, sessions, feedback, origin, started, vin, vout, inflight, seeded, foreign_keys>>

\* GET /api/analytics/user/<user_id> with an Authorization header, through
\* login_required
HandleUserAnalytics(auth_header, url_user_id) ==
    /\ started
    /\ \E auth \in {login_required(users, auth_header, url_user_id)} :
          IF auth.kind = "return"
          THEN call' = [op |-> "handle_user_analytics", auth_header |-> auth_header,
                        url_user_id |-> url_user_id, ret |-> auth]
          ELSE \E order \in OrderByDateAsc({r \in sessions : r.user_id = auth.user_id}) :
                  call' = [op |-> "handle_user_analytics", auth_header |-> auth_header,
                           url_user_id |-> url_user_id,
                           ret |-> get_user_analytics(users, feedback, auth.user_id, order)]
    /\ UNCHANGED <<users, sessions, feedback, origin, started, vin, vout, inflight, seeded, foreign_keys>>

\* GET /api/analytics/summary
GetPlatformSummary ==
    /\ started
    /\ call' = [op |-> "get_platform_summary", ret |-> get_platform_summary(users, sessions)]
    /\ UNCHANGED <<users, sessions, feedback, origin, started, vin, vout, inflight, seeded, foreign_keys>>

\* GET /api/analytics/popular
GetPopularSessions ==
    /\ started
    /\ \E order \in OrderByCountDesc(PopularGroups(sessions)) :
          call' = [op |-> "get_popular_sessions", ret |-> get_popular_sessions(order)]
    /\ UNCHANGED <<users, sessions, feedback, origin, started, vin, vout, inflight, seeded, foreign_keys>>

\* GET /api/analytics/session/<session_usage_id>
GetSessionAnalytics(session_usage_id) ==
    /\ started
    /\ call' = [op |-> "get_session_analytics", session_usage_id |-> session_usage_id,
                ret |-> get_session_analytics(sessions, feedback, session_usage_id)]
    /\ UNCHANGED <<users, sessions, feedback, origin, started, vin, vout, inflight, seeded, foreign_keys>>

\* every stored text is a JSON object and every session has its feedback row
Intact ==
    /\ \A r \in sessions : FeedbackOf(feedback, r.id) # NoRow
    /\ \A x \in feedback :
          /\ x.band_scores # Garbage /\ x.band_scores.j = "object"
          /\ x.feedback_text # PyNone /\ x.feedback_text # Garbage
          /\ x.feedback_text.j = "object"

Damages ==
    {"band_garbage", "band_array", "text_garbage", "text_null", "text_array", "unlinked"}

\* a legacy or corrupt record, which the readers provide for: one feedback row
\* of an otherwise intact store holds text that is no JSON object, or is gone
LegacyRecord(x, damage) ==
    /\ started
    /\ Intact
    /\ x \in feedback
    /\ feedback' =
          (feedback \ {x}) \cup
          CASE damage = "band_garbage" -> {[x EXCEPT !.band_scores = Garbage]}
            [] damage = "band_array" -> {[x EXCEPT !.band_scores = Dumps(PyList({}))]}
            [] damage = "text_garbage" -> {[x EXCEPT !.feedback_text = Garbage]}
            [] damage = "text_null" -> {[x EXCEPT !.feedback_text = PyNone]}
            [] damage = "text_array" -> {[x EXCEPT !.feedback_text = Dumps(PyList({}))]}
            [] OTHER -> {}
    /\ call' = [op |-> "legacy_record", id |-> x.id, damage |-> damage]
    /\ UNCHANGED <<users, sessions, origin, started, vin, vout, inflight, seeded, foreign_keys>>

----------------------------------------------------------------------------
(* Concurrent requests: each request runs in its own database session *)

\* how many requests may be in progress at once
MaxInflight == 2

\* the requests in progress, and the request number a new one gets
Running == DOMAIN inflight
FreeSlot == CHOOSE r \in 1..MaxInflight + 1 : r \notin Running /\ \A q \in 1..r - 1 : q \in Running

\* the request starts, makes a step, ends
Begin(request) ==
    /\ Cardinality(Running) < MaxInflight
    /\ inflight' = [r \in Running \cup {FreeSlot} |->
                      IF r = FreeSlot THEN request ELSE inflight[r]]
Step(rid, request) == inflight' = [inflight EXCEPT ![rid] = request]
End(rid) == inflight' = [r \in Running \ {rid} |-> inflight[r]]

\* the rows that the transactions in progress have inserted and not committed
Uncommitted ==
    Tables(UNION {inflight[r].pending.sessions : r \in Running},
           UNION {inflight[r].pending.feedback : r \in Running})

\* what a query of one session sees of the tables: the store's transaction
\* isolation hides the rows that other transactions have not committed
Visible_uncommitted(committed, uncommitted) ==
    Tables(committed.sessions \cup uncommitted.sessions,
           committed.feedback \cup uncommitted.feedback)
Visible(committed, uncommitted) == committed

\* the tables as a query made now sees them
Seen == Visible(Tables(sessions, feedback), Uncommitted)

\* every row that holds a primary key, committed or not
Allocated ==
    Tables(sessions \cup Uncommitted.sessions, feedback \cup Uncommitted.feedback)

NoPending == Tables({}, {})

\* the log_session calls in progress
Recording == {r \in Running : inflight[r].op = "log_session"}


\* the rows that request rid has deleted and not committed
Deleted(rid) ==
    IF inflight[rid].op = "delete_user_account" THEN inflight[rid].deleted ELSE NoPending

\* the SQLite file has one writer at a time: a request that writes waits while
\* another request holds uncommitted writes
WriteLocked(rid) ==
    /\ ~foreign_keys
    /\ \E q \in Running \ {rid} :
          inflight[q].pending # NoPending \/ Deleted(q) # NoPending

\* what datetime.utcnow() reads when a row is inserted: a day passes between
\* two recordings
ClockNow == Today + Cardinality(Logged) + Cardinality(Uncommitted.sessions)

\* analyze_speech reaches log_session for an authenticated user.  Data that
\* log_session refuses ends the call at once; otherwise the rows are written
\* by the three steps of db.session.commit() below.
BeginLogSession(user_id, session_id_str, analysis_data, transcript) ==
    /\ started
    /\ user_id \in {u.id : u \in users}
    /\ Cardinality(Logged) + Cardinality(Recording) < MaxLogged
    /\ \E done \in {log_session(Allocated, user_id, session_id_str, analysis_data, PyNone,
                               transcript, PyNone, PyNone, PyNone, "none", Today)} :
          IF done.wrote
          THEN /\ Begin([op |-> "log_session", pc |-> "insert_usage", user_id |-> user_id,
                         session_id_str |-> session_id_str,
                         analysis_data |-> analysis_data, transcript |-> transcript,
                         pending |-> NoPending])
               /\ UNCHANGED call
          ELSE /\ Cardinality(Running) < MaxInflight
               /\ call' = [op |-> "log_session", user_id |-> user_id,
                           session_id_str |-> session_id_str,
                           analysis_data |-> analysis_data, new |-> {}, ret |-> done.ret]
               /\ UNCHANGED inflight
    /\ UNCHANGED <<users, sessions, feedback, origin, started, vin, vout, seeded, foreign_keys>>

\* the flush of db.session.commit(): INSERT INTO session_usage, the first
\* write of the transaction
InsertUsage(rid) ==
    /\ rid \in Running
    /\ inflight[rid].op = "log_session" /\ inflight[rid].pc = "insert_usage"
    /\ ~WriteLocked(rid)
    /\ \E done \in {log_session(Allocated, inflight[rid].user_id,
                               inflight[rid].session_id_str, inflight[rid].analysis_data,
                               PyNone, inflight[rid].transcript, PyNone, PyNone, PyNone, "none",
                               ClockNow)} :
          Step(rid, [inflight[rid] EXCEPT
                        !.pc = "insert_feedback",
                        !.pending = Tables(done.tables.sessions \ Allocated.sessions, {})])
    /\ UNCHANGED <<users, sessions, feedback, origin, started, call, vin, vout, seeded, foreign_keys>>

\* the flush of db.session.commit(): INSERT INTO feedback_summary, linked to
\* the session_usage row of this transaction
InsertFeedback(rid) ==
    /\ rid \in Running
    /\ inflight[rid].op = "log_session" /\ inflight[rid].pc = "insert_feedback"
    /\ \E usage \in inflight[rid].pending.sessions :
       \E done \in {log_session(Tables(Allocated.sessions \ {usage}, Allocated.feedback),
                               inflight[rid].user_id, inflight[rid].session_id_str,
                               inflight[rid].analysis_data, PyNone, inflight[rid].transcript,
                               PyNone, PyNone, PyNone, "none", ClockNow)} :
          Step(rid, [inflight[rid] EXCEPT
                        !.pc = "commit",
                        !.pending = Tables({usage},
                                           {[fb EXCEPT !.session_usage_id = usage.id] :
                                               fb \in done.tables.feedback
                                                         \ Allocated.feedback})])
    /\ UNCHANGED <<users, sessions, feedback, origin, started, call, vin, vout, seeded, foreign_keys>>

\* COMMIT: the pair becomes visible at once, and log_session returns the id.
\* A store that checks foreign keys refuses rows of a user who is gone, and
\* log_session returns False.
CommitLogSession(rid) ==
    /\ rid \in Running
    /\ inflight[rid].op = "log_session" /\ inflight[rid].pc = "commit"
    /\ LET mine == inflight[rid].pending
           refused == foreign_keys /\ ~\E u \in users : u.id = inflight[rid].user_id
           new == IF refused THEN {} ELSE {r.id : r \in mine.sessions}
       IN  /\ sessions' = IF refused THEN sessions ELSE sessions \cup mine.sessions
           /\ feedback' = IF refused THEN feedback ELSE feedback \cup mine.feedback
           /\ origin' = [id \in DOMAIN origin \cup new |->
                           IF id \in new
                           THEN [path |-> "log_session",
                                 source |-> inflight[rid].analysis_data]
                           ELSE origin[id]]
           /\ call' = [op |-> "log_session", user_id |-> inflight[rid].user_id,
                       session_id_str |-> inflight[rid].session_id_str,
                       analysis_data |-> inflight[rid].analysis_data, new |-> new,
                       ret |-> IF refused THEN Caught(Raise("IntegrityError"))
                               ELSE ReturnId(CHOOSE id \in new : TRUE)]
    /\ End(rid)
    /\ UNCHANGED <<users, started, vin, vout, seeded, foreign_keys>>

\* get_session_analytics_data: SessionUsage.query.get(session_usage_id); a
\* request that finds no row ends with 404
BeginSessionAnalytics(session_usage_id) ==
    /\ started
    /\ IF \E r \in Seen.sessions : r.id = session_usage_id
       THEN /\ Begin([op |-> "get_session_analytics", pc |-> "feedback",
                      session_usage_id |-> session_usage_id,
                      session_usage |->
                          CHOOSE r \in Seen.sessions : r.id = session_usage_id,
                      pending |-> NoPending])
            /\ UNCHANGED call
       ELSE /\ Cardinality(Running) < MaxInflight
            /\ call' = [op |-> "get_session_analytics",
                        session_usage_id |-> session_usage_id, session_usage |-> NoRow,
                        ret |-> get_session_analytics(Seen.sessions, Seen.feedback,
                                                      session_usage_id)]
            /\ UNCHANGED inflight
    /\ UNCHANGED <<users, sessions, feedback, origin, started, vin, vout, seeded, foreign_keys>>

\* session_usage.feedback: the lazy load of the row's feedback, and the answer
LoadFeedback(rid) ==
    /\ rid \in Running
    /\ inflight[rid].op = "get_session_analytics" /\ inflight[rid].pc = "feedback"
    /\ call' = [op |-> "get_session_analytics",
                session_usage_id |-> inflight[rid].session_usage_id,
                session_usage |-> inflight[rid].session_usage,
                ret |-> get_session_analytics({inflight[rid].session_usage}, Seen.feedback,
                                              inflight[rid].session_usage_id)]
    /\ End(rid)
    /\ UNCHANGED <<users, sessions, feedback, origin, started, vin, vout, seeded, foreign_keys>>

\* get_user_analytics: User.query.get and the query of the user's sessions;
\* a request for no user, or for a user without sessions, ends at once
BeginUserAnalytics(user_id) ==
    /\ started
    /\ \E order \in OrderByDateAsc({r \in Seen.sessions : r.user_id = user_id}) :
          IF (\E u \in users : u.id = user_id) /\ order # <<>>
          THEN /\ Begin([op |-> "get_user_analytics", pc |-> "feedback",
                         user_id |-> user_id, order |-> order, loaded |-> {},
                         at |-> 1, pending |-> NoPending])
               /\ UNCHANGED call
          ELSE /\ Cardinality(Running) < MaxInflight
               /\ call' = [op |-> "get_user_analytics", user_id |-> user_id,
                           ret |-> get_user_analytics(users, {}, user_id, order)]
               /\ UNCHANGED inflight
    /\ UNCHANGED <<users, sessions, feedback, origin, started, vin, vout, seeded, foreign_keys>>

\* session.feedback inside the loop: the lazy load of one row's feedback; the
\* answer follows the last one
LoadNextFeedback(rid) ==
    /\ rid \in Running
    /\ inflight[rid].op = "get_user_analytics" /\ inflight[rid].pc = "feedback"
    /\ LET request == inflight[rid]
           row == request.order[request.at]
           loaded == request.loaded
                        \cup ({FeedbackOf(Seen.feedback, row.id)} \ {NoRow})
       IN  IF request.at < Len(request.order)
           THEN /\ Step(rid, [request EXCEPT !.loaded = loaded, !.at = request.at + 1])
                /\ UNCHANGED call
           ELSE /\ call' = [op |-> "get_user_analytics", user_id |-> request.user_id,
                            ret |-> get_user_analytics(users, loaded, request.user_id,
                                                       request.order)]
                /\ End(rid)
    /\ UNCHANGED <<users, sessions, feedback, origin, started, vin, vout, seeded, foreign_keys>>

\* the UNIQUE constraints of users.username and users.email: whether the
\* store refuses to write this row next to the rows u
UniqueViolation_unenforced(u, row) == FALSE
UniqueViolation(u, row) ==
    \E x \in u : x.id # row.id /\ (x.username = row.username \/ x.email = row.email)

\* a key that the JSON body of a request does not hold
NotGiven == "<not given>"

\* str.strip() of the texts that requests send
Stripped == " " :> "" @@ " alice " :> "alice"
strip(text) == IF text \in DOMAIN Stripped THEN Stripped[text] ELSE text

\* the names and addresses that the uncommitted UPDATEs of other requests
\* hold in the unique indexes: a write of one of them waits for that request
Held(rid) ==
    UNION {inflight[q].held : q \in {r \in Running \ {rid} :
                                        inflight[r].op = "update_user_profile"}}

\* register_user up to the existence checks; a request that passes them goes
\* on to db.session.commit()
BeginRegister(username, email, password) ==
    /\ started
    /\ \E done \in {register_user(users, username, email, password)} :
          IF done.ret.status = 201
          THEN /\ Begin([op |-> "register_user", pc |-> "commit", username |-> username,
                         email |-> email, pending |-> NoPending])
               /\ UNCHANGED call
          ELSE /\ Cardinality(Running) < MaxInflight
               /\ call' = [op |-> "register_user", username |-> username,
                           email |-> email, checked |-> FALSE, ret |-> done.ret]
               /\ UNCHANGED inflight
    /\ UNCHANGED <<users, sessions, feedback, origin, started, vin, vout, seeded, foreign_keys>>

\* db.session.commit() of register_user: INSERT INTO users and COMMIT.  The
\* exception of a refused INSERT, or of a store that is locked, leaves the
\* handler: nothing is written.
CommitRegister(rid, busy) ==
    /\ rid \in Running
    /\ inflight[rid].op = "register_user" /\ inflight[rid].pc = "commit"
    /\ {inflight[rid].username, inflight[rid].email} \cap Held(rid) = {}
    /\ LET new_user == User(NextId(users), inflight[rid].username, inflight[rid].email)
           raised == IF busy THEN Raise("OperationalError")
                     ELSE IF UniqueViolation(users, new_user)
                     THEN Raise("IntegrityError")
                     ELSE PyNone
       IN  /\ users' = IF Raised(raised) THEN users ELSE users \cup {new_user}
           /\ call' = [op |-> "register_user", username |-> inflight[rid].username,
                       email |-> inflight[rid].email, checked |-> TRUE,
                       ret |-> IF Raised(raised) THEN raised ELSE Respond(201, new_user)]
    /\ End(rid)
    /\ UNCHANGED <<sessions, feedback, origin, started, vin, vout, seeded, foreign_keys>>

\* whether another user has this name, this address
NameTaken(u, user_id, username) == \E x \in u : x.username = username /\ x.id # user_id
EmailTaken(u, user_id, email) == \E x \in u : x.email = email /\ x.id # user_id

\* update_user_profile up to its first query of another user's name or
\* address.  data holds the username and the email of the JSON body.
BeginUpdateProfile(user_id, data) ==
    /\ started
    /\ LET new_username == strip(data.username)
           new_email == strip(data.email)
           ret == IF ~\E x \in users : x.id = user_id
                  THEN Respond(404, Error("User not found"))
                  ELSE IF data.username = NotGiven /\ data.email = NotGiven
                  THEN Respond(400, Error("No data provided"))
                  ELSE IF data.username # NotGiven /\ new_username = ""
                  THEN Respond(400, Error("Username cannot be empty"))
                  ELSE IF data.username # NotGiven /\ NameTaken(users, user_id, new_username)
                  THEN Respond(409, Error("Username already exists"))
                  ELSE IF data.email # NotGiven /\ new_email = ""
                  THEN Respond(400, Error("Email cannot be empty"))
                  ELSE IF data.username = NotGiven /\ EmailTaken(users, user_id, new_email)
                  THEN Respond(409, Error("Email already exists"))
                  ELSE PyNone
       IN  IF ret = PyNone
           THEN /\ Begin([op |-> "update_user_profile",
                          pc |-> IF data.username # NotGiven /\ data.email # NotGiven
                                 THEN "email" ELSE "commit",
                          user_id |-> user_id, username |-> new_username,
                          email |-> new_email, held |-> {}, pending |-> NoPending])
                /\ UNCHANGED call
           ELSE /\ Cardinality(Running) < MaxInflight
                /\ call' = [op |-> "update_user_profile", user_id |-> user_id,
                            data |-> data, checked |-> FALSE, ret |-> ret]
                /\ UNCHANGED inflight
    /\ UNCHANGED <<users, sessions, feedback, origin, started, vin, vout, seeded, foreign_keys>>

\* the query of the email, after user.username was set: the session flushes
\* the UPDATE of the username first, and an exception of it leaves the
\* handler; the UPDATE stays uncommitted until the request ends
QueryEmail(rid, busy) ==
    /\ rid \in Running
    /\ inflight[rid].op = "update_user_profile" /\ inflight[rid].pc = "email"
    /\ inflight[rid].username \notin Held(rid)
    /\ LET request == inflight[rid]
           rows == {x \in users : x.id = request.user_id}
           flushed == {[x EXCEPT !.username = request.username] : x \in rows}
           ret == IF busy THEN Raise("OperationalError")
                  ELSE IF rows = {} THEN Raise("StaleDataError")
                  ELSE IF \E row \in flushed : UniqueViolation(users, row)
                  THEN Raise("IntegrityError")
                  ELSE IF EmailTaken(users, request.user_id, request.email)
                  THEN Respond(409, Error("Email already exists"))
                  ELSE PyNone
       IN  IF ret = PyNone
           THEN /\ Step(rid, [request EXCEPT
                                 !.pc = "commit",
                                 !.held = {request.username} \cup {x.username : x \in rows}])
                /\ UNCHANGED call
           ELSE /\ call' = [op |-> "update_user_profile", user_id |-> request.user_id,
                            data |-> [username |-> request.username,
                                      email |-> request.email],
                            checked |-> TRUE, ret |-> ret]
                /\ End(rid)
    /\ UNCHANGED <<users, sessions, feedback, origin, started, vin, vout, seeded, foreign_keys>>

\* db.session.commit() of update_user_profile: the UPDATE and the COMMIT; an
\* exception rolls back and answers 500
CommitUpdateProfile(rid, busy) ==
    /\ rid \in Running
    /\ inflight[rid].op = "update_user_profile" /\ inflight[rid].pc = "commit"
    /\ {inflight[rid].username, inflight[rid].email} \cap Held(rid) = {}
    /\ LET request == inflight[rid]
           rows == {x \in users : x.id = request.user_id}
           updated == {[x EXCEPT
                           !.username = IF request.username = NotGiven THEN @
                                        ELSE request.username,
                           !.email = IF request.email = NotGiven THEN @
                                     ELSE request.email] : x \in rows}
           failed == \/ busy
                     \/ rows = {}
                     \/ \E row \in updated : UniqueViolation(users, row)
       IN  /\ users' = IF failed THEN users ELSE (users \ rows) \cup updated
           /\ call' = [op |-> "update_user_profile", user_id |-> request.user_id,
                       data |-> [username |-> request.username, email |-> request.email],
                       checked |-> TRUE,
                       ret |-> IF failed
                               THEN Respond(500, Error("Failed to update profile"))
                               ELSE Respond(200, CHOOSE row \in updated : TRUE)]
    /\ End(rid)
    /\ UNCHANGED <<sessions, feedback, origin, started, vin, vout, seeded, foreign_keys>>

\* delete_user_account up to the loop over user_sessions: User.query.get, the
\* query of the user's sessions and, for each of them, of its first feedback
BeginDelete(user_id) ==
    /\ started
    /\ IF \E x \in users : x.id = user_id
       THEN LET user_sessions == {r \in Seen.sessions : r.user_id = user_id}
            IN  /\ Begin([op |-> "delete_user_account", pc |-> "delete_sessions",
                          user_id |-> user_id,
                          user_sessions |-> {r.id : r \in user_sessions},
                          marked |-> FirstFeedbacks(Seen.feedback, user_sessions),
                          deleted |-> NoPending, pending |-> NoPending])
                /\ UNCHANGED call
       ELSE /\ Cardinality(Running) < MaxInflight
            /\ call' = [op |-> "delete_user_account", user_id |-> user_id, fail |-> "none",
                        had |-> {},
                        ret |-> delete_user_account(users, sessions, feedback, user_id,
                                                    "none").ret]
            /\ UNCHANGED inflight
    /\ UNCHANGED <<users, sessions, feedback, origin, started, vin, vout, seeded,
                   foreign_keys>>

\* SessionUsage.query.filter_by(user_id=user_id).delete(): the session flushes
\* the DELETEs of the marked feedback, then one DELETE removes the sessions
\* that the user has by now.  A store that checks foreign keys refuses it
\* when one of these sessions has feedback left; the handler rolls back.
DeleteSessions(rid) ==
    /\ rid \in Running
    /\ inflight[rid].op = "delete_user_account" /\ inflight[rid].pc = "delete_sessions"
    /\ ~WriteLocked(rid)
    /\ LET request == inflight[rid]
           f1 == Seen.feedback \ request.marked
           owned == {r \in Seen.sessions : r.user_id = request.user_id}
           refused == foreign_keys /\ \E x \in f1, r \in owned : x.session_usage_id = r.id
       IN  IF refused
           THEN /\ call' = [op |-> "delete_user_account", user_id |-> request.user_id,
                            fail |-> "none", had |-> request.user_sessions,
                            ret |-> Respond(500, Error("Failed to delete account"))]
                /\ End(rid)
           ELSE /\ Step(rid, [request EXCEPT
                                 !.pc = "commit",
                                 !.deleted = Tables(owned, Seen.feedback \cap request.marked)])
                /\ UNCHANGED call
    /\ UNCHANGED <<users, sessions, feedback, origin, started, vin, vout, seeded,
                   foreign_keys>>

\* db.session.delete(user) and db.session.commit(): the flush loads the
\* sessions that the user has by now and deletes them with their feedback
\* (cascade), deletes the user, and the transaction commits.  The DELETE of
\* the user waits for the transactions that hold rows of the user.
CommitDelete(rid) ==
    /\ rid \in Running
    /\ inflight[rid].op = "delete_user_account" /\ inflight[rid].pc = "commit"
    /\ ~WriteLocked(rid)
    /\ ~(foreign_keys /\ \E r \in Uncommitted.sessions : r.user_id = inflight[rid].user_id)
    /\ LET request == inflight[rid]
           gone == ~\E x \in users : x.id = request.user_id
           s1 == sessions \ request.deleted.sessions
           f1 == feedback \ request.deleted.feedback
           cascade == CascadeOfUser(s1, f1, request.user_id)
           left == s1 \ cascade.sessions
       IN  /\ users' = {x \in users : x.id # request.user_id}
           /\ sessions' = IF gone THEN sessions ELSE left
           /\ feedback' = IF gone THEN feedback ELSE f1 \ cascade.feedback
           /\ origin' = IF gone THEN origin ELSE [id \in {r.id : r \in left} |-> origin[id]]
           /\ call' = [op |-> "delete_user_account", user_id |-> request.user_id,
                       fail |-> "none", had |-> request.user_sessions,
                       ret |-> IF gone
                               THEN Respond(500, Error("Failed to delete account"))
                               ELSE Respond(200, [message |->
                                                     "Account deleted successfully"])]
    /\ End(rid)
    /\ UNCHANGED <<started, vin, vout, seeded, foreign_keys>>

----------------------------------------------------------------------------
(* Inputs of the validator under test *)

\* what a criterion, or overall_band.score, may hold: just below, on and just
\* above each limit (-0.1, 0, 9, 9.1), nan, and a non-number
ScoreInputs == {Num(-1), Num(0), Num(90), Num(91), PyNaN, PyStr({})}

\* every mapping from some of the keys to the values
Mappings(keys, vals) == UNION {[S -> vals] : S \in SUBSET keys}

\* criteria_scores: a dict holding any of the four criteria, with or without one
\* more key, or something that is no dict
CriteriaInputs ==
    {PyDict(f) : f \in Mappings(Criteria, ScoreInputs)}
    \cup {PyDict(f @@ ("extra_criterion" :> Num(50))) : f \in Mappings(Criteria, ScoreInputs)}
    \cup {PyNone, Num(50), PyList({}), PyList(Criteria), PyStr({}), PyStr(Criteria)}

\* overall_band: a dict with or without score, or something that is no dict
OverallInputs ==
    {PyDict("summary" :> PyStr({}))}
    \cup {PyDict("score" :> s @@ "summary" :> PyStr({})) : s \in ScoreInputs}
    \cup {PyNone, Num(50), PyList({"score"}), PyStr({})}

InsightInputs == {EmptyDict}

\* a key that the dict does not hold
Absent == [t |-> "absent"]
Field(key, v) == IF v = Absent THEN <<>> ELSE key :> v

\* analysis_data: a dict holding any of the required keys
AnalysisDict(cs, ob, ai) ==
    PyDict(Field("criteria_scores", cs) @@ Field("overall_band", ob)
           @@ Field("actionable_insights", ai))

\* analysis_data that is no dict
NonDictInputs == {PyNone, Num(50), PyList({}), PyStr({})}

NotCalled == [kind |-> "none"]

InitValidate ==
    /\ InitStore
    /\ vin = Absent
    /\ vout = NotCalled
    /\ foreign_keys = FALSE

\* one call validate_analysis_data(analysis_data)
ValidateCall(analysis_data) ==
    /\ vin' = analysis_data
    /\ vout' = validate_analysis_data(analysis_data)
    /\ UNCHANGED <<users, sessions, feedback, origin, started, call, inflight, seeded, foreign_keys>>

Validate ==
    /\ vout = NotCalled
    /\ \/ \E cs \in CriteriaInputs \cup {Absent}, ob \in OverallInputs \cup {Absent},
             ai \in InsightInputs \cup {Absent} : ValidateCall(AnalysisDict(cs, ob, ai))
       \/ \E analysis_data \in NonDictInputs : ValidateCall(analysis_data)

NextValidate == Validate

SpecValidate == InitValidate /\ [][NextValidate]_vars

----------------------------------------------------------------------------
(* Inputs of log_session and the specifications of the store *)

GoodCriteria4 == Scores(65, 60, 0, 90)
Analysis(criteria_scores, overall_score) ==
    PyDict("criteria_scores" :> criteria_scores
           @@ "overall_band" :> PyDict("score" :> overall_score @@ "summary" :> PyStr({}))
           @@ "actionable_insights" :> EmptyDict)

GoodAnalysis == Analysis(GoodCriteria4, Num(60))
\* the same without actionable_insights
NoInsightsAnalysis ==
    PyDict("criteria_scores" :> GoodCriteria4
           @@ "overall_band" :> PyDict("score" :> Num(60)))
\* pronunciation 9.1, overall score -0.1, pronunciation nan
HighScoreAnalysis == Analysis(Scores(65, 60, 0, 91), Num(60))
LowOverallAnalysis == Analysis(GoodCriteria4, Num(-1))
NaNScoreAnalysis ==
    Analysis(PyDict("pronunciation" :> PyNaN @@ GoodCriteria4.d), Num(60))
\* criteria_scores null
NullCriteriaAnalysis == Analysis(PyNone, Num(60))

LoggedAnalyses ==
    {GoodAnalysis, NoInsightsAnalysis, HighScoreAnalysis, LowOverallAnalysis,
     NaNScoreAnalysis, NullCriteriaAnalysis, PyNone}

SessionIdStrs == {"session_1", "session_2"}
UserIds == {u.id : u \in users}
SomeTranscript == Text(<<"w", " ", "w">>)

\* the store is the default one, the SQLite file spiko.db, which does not
\* check foreign keys
InitSpec ==
    /\ InitStore
    /\ vin = Absent
    /\ vout = NotCalled
    /\ foreign_keys = FALSE

\* the store is the default one or the PostgreSQL database of DATABASE_URL,
\* which checks foreign keys
InitDeployed ==
    /\ InitStore
    /\ vin = Absent
    /\ vout = NotCalled
    /\ foreign_keys \in ForeignKeys

\* the application starts (and restarts) and requests record sessions, the
\* store failing at any point
Next ==
    \/ \E fail \in SeedFailPoints : Startup(fail)
    \/ \E user_id \in UserIds, session_id_str \in SessionIdStrs,
          analysis_data \in LoggedAnalyses, fail \in FailPoints :
          LogSession(user_id, session_id_str, analysis_data, PyNone, SomeTranscript,
                     PyNone, PyNone, PyNone, fail, Today)

Spec == InitSpec /\ [][Next]_vars

DurationInputs == {PyNone, PyInt(-5), PyInt(0), PyInt(60)}
TranscriptInputs == {PyNone, Text(<<>>), SomeTranscript}
StartInputs == {PyNone, IsoStr(100, FALSE), BadStr}
EndInputs == {PyNone, IsoStr(130, FALSE), IsoStr(70, FALSE), IsoStr(130, TRUE)}

\* the application starts and sessions are recorded with every combination of
\* duration, transcript and timestamps
NextDuration ==
    \/ Startup("none")
    \/ \E user_id \in UserIds, duration \in DurationInputs,
          transcript \in TranscriptInputs, start_time \in StartInputs,
          end_time \in EndInputs :
          LogSession(user_id, "session_1", GoodAnalysis, duration, transcript,
                     start_time, end_time, PyNone, "none", Today)

SpecDuration == InitSpec /\ [][NextDuration]_vars

\* the identifiers a request may name: those of the rows and one of no row
UserIdsAsked == UserIds \cup {NextId(users)}
SessionIdsAsked == {r.id : r \in sessions} \cup {NextId(sessions)}

\* the application runs over a store in which a legacy record may turn up,
\* sessions are recorded, and the history and the detail are read
NextLegacy ==
    \/ Startup("none")
    \/ \E user_id \in UserIds :
          LogSession(user_id, "session_1", GoodAnalysis, PyNone, SomeTranscript,
                     PyNone, PyNone, PyNone, "none", Today)
    \/ \E x \in feedback, damage \in Damages : LegacyRecord(x, damage)
    \/ \E user_id \in UserIdsAsked : GetUserAnalytics(user_id)
    \/ \E session_usage_id \in SessionIdsAsked : GetSessionAnalytics(session_usage_id)

SpecLegacy == InitSpec /\ [][NextLegacy]_vars

\* scores given as int 7, True, 5.5 and 9.0, a fifth key, overall score int 9
MixedAnalysis ==
    Analysis(PyDict("fluency_coherence" :> PyInt(7) @@ "lexical_resource" :> PyBool(TRUE)
                    @@ "grammatical_range_accuracy" :> Num(55) @@ "pronunciation" :> Num(90)
                    @@ "extra_criterion" :> Num(50)),
             PyInt(9))

RoundTripAnalyses == {GoodAnalysis, MixedAnalysis, NaNScoreAnalysis, HighScoreAnalysis}

\* sessions are recorded from payloads of every accepted kind and their detail
\* is read back
NextRoundTrip ==
    \/ Startup("none")
    \/ \E user_id \in UserIds, analysis_data \in RoundTripAnalyses :
          LogSession(user_id, "session_1", analysis_data, PyNone, SomeTranscript,
                     PyNone, PyNone, PyNone, "none", Today)
    \/ \E session_usage_id \in SessionIdsAsked : GetSessionAnalytics(session_usage_id)

SpecRoundTrip == InitSpec /\ [][NextRoundTrip]_vars

\* what a registration request may hold; "" is a missing field
Usernames == {"", "SpikoUser", "alice"}
Emails == {"user@spiko.ai", "alice@spiko.ai"}

\* what the clock may read when a session is recorded
Clock == {Today, Today + 1}

\* the largest primary keys the runs below hand out
MaxUserId == 3
MaxSessionId == 7

\* one run of the application: users register and delete their accounts,
\* record sessions at any reading of the clock and read their history
NextAccounts ==
    \/ ~started /\ Startup("none")
    \/ /\ NextId(users) <= MaxUserId
       /\ \E username \in Usernames, email \in Emails : RegisterUser(username, email, "pw")
    \/ \E user_id \in UserIds, utcnow \in Clock :
          /\ NextId(sessions) <= MaxSessionId
          /\ LogSession(user_id, "session_1", GoodAnalysis, PyNone, SomeTranscript,
                     PyNone, PyNone, PyNone, "none", utcnow)
    \/ \E user_id \in UserIdsAsked, fail \in DeleteFailPoints : DeleteUser(user_id, fail)
    \/ \E user_id \in UserIdsAsked : GetUserAnalytics(user_id)

SpecAccounts == InitSpec /\ [][NextAccounts]_vars

\* the templates practised: one of the seeded ones and two more, so that the
\* store holds more templates than the ranking returns
PractisedTemplates == {"session_1", "session_5", "session_6"}

\* sessions of several templates are recorded and the ranking is read
NextPopular ==
    \/ ~started /\ Startup("none")
    \/ \E user_id \in UserIds, session_id_str \in PractisedTemplates :
          LogSession(user_id, session_id_str, GoodAnalysis, PyNone, SomeTranscript,
                     PyNone, PyNone, PyNone, "none", Today)
    \/ GetPopularSessions

SpecPopular == InitSpec /\ [][NextPopular]_vars

\* the duration a caller of log_session passes: none, or one minute
DurationsPassed == {PyNone, PyInt(60)}

\* users come and go, sessions of either duration are recorded and the
\* summary is read
NextSummary ==
    \/ ~started /\ Startup("none")
    \/ /\ NextId(users) <= MaxUserId
       /\ \E username \in Usernames, email \in Emails : RegisterUser(username, email, "pw")
    \/ \E user_id \in UserIds, duration \in DurationsPassed :
          /\ NextId(sessions) <= MaxSessionId
          /\ LogSession(user_id, "session_1", GoodAnalysis, duration, SomeTranscript,
                        PyNone, PyNone, PyNone, "none", Today)
    \/ \E user_id \in UserIds : DeleteUser(user_id, "none")
    \/ GetPlatformSummary

SpecSummary == InitSpec /\ [][NextSummary]_vars

\* the request bodies: none, empty, without a transcript, with an empty, a
\* blank and a spoken transcript of one or two words, with and without a
\* session_id
Requests ==
    {PyNone, EmptyDict,
     PyDict("transcript" :> Text(<<"w">>)),
     PyDict("session_id" :> PyLiteral("session_1")),
     PyDict("transcript" :> Text(<<>>)),
     PyDict("transcript" :> Text(<<" ">>)),
     PyDict("transcript" :> SomeTranscript),
     PyDict("transcript" :> SomeTranscript @@ "session_id" :> PyLiteral("session_1"))}

\* what the AI service comes to: the JSON object of a reply is always a dict
AiOutcomes ==
    {Unreachable, NoJson}
    \cup {Parsed(a) : a \in {GoodAnalysis, NoInsightsAnalysis, HighScoreAnalysis,
                              NullCriteriaAnalysis}}

\* the application starts and users ask for analyses, the AI service and the
\* store failing at any point
NextAnalyze ==
    \/ ~started /\ Startup("none")
    \/ \E user_id \in UserIds, data \in Requests, ai \in AiOutcomes, fail \in FailPoints :
          AnalyzeSpeech(user_id, data, ai, fail, Today)

SpecAnalyze == InitSpec /\ [][NextAnalyze]_vars

\* n words, each one letter, separated by single blanks
RECURSIVE Words(_)
Words(n) == IF n = 1 THEN <<"w">> ELSE Words(n - 1) \o <<" ", "w">>

\* transcripts: none, empty, blank, one to three words with blanks around and
\* between them, and the example's seven words
MetricTranscripts ==
    {PyNone, Text(<<>>), Text(<<" ">>), Text(<<"w">>), Text(<<"w", "w", " ", "w">>),
     Text(<<" ", "w", " ", " ", "w", "w", " ">>), Text(Words(3)), Text(Words(7))}

\* timestamps: none, 0, a number, a string that does not parse, ISO strings
\* and datetime objects with and without an offset, at 0, 9 and 60 seconds
MetricTimestamps ==
    {PyNone, PyInt(0), PyInt(5), BadStr,
     IsoStr(0, TRUE), IsoStr(9, TRUE), IsoStr(60, TRUE), IsoStr(0, FALSE), IsoStr(60, FALSE),
     DateTime(0, TRUE), DateTime(60, TRUE), DateTime(9, FALSE)}

\* the metrics calculator is applied to every input
NextMetrics ==
    \E transcript \in MetricTranscripts, start_time \in MetricTimestamps,
       end_time \in MetricTimestamps : Metrics(transcript, start_time, end_time)

SpecMetrics == InitSpec /\ [][NextMetrics]_vars

\* sessions are recorded, a legacy record may turn up, and each of the four
\* read operations is called with every argument
NextReads ==
    \/ ~started /\ Startup("none")
    \/ \E user_id \in UserIds, session_id_str \in SessionIdStrs :
          LogSession(user_id, session_id_str, GoodAnalysis, PyNone, SomeTranscript,
                     PyNone, PyNone, PyNone, "none", Today)
    \/ \E x \in feedback, damage \in Damages : LegacyRecord(x, damage)
    \/ \E user_id \in UserIdsAsked : GetUserAnalytics(user_id)
    \/ GetPlatformSummary
    \/ GetPopularSessions
    \/ \E session_usage_id \in SessionIdsAsked : GetSessionAnalytics(session_usage_id)

SpecReads == InitSpec /\ [][NextReads]_vars

\* the Authorization headers: none, an invalid token, and tokens naming no
\* user (0), each user and a user that does not exist
AuthHeaders == {NoHeader, BadToken, Token(0)} \cup {Token(id) : id \in UserIdsAsked}

\* users register, record sessions and ask for histories with any token and
\* any user id in the URL
NextTokens ==
    \/ ~started /\ Startup("none")
    \/ RegisterUser("alice", "alice@spiko.ai", "pw")
    \/ \E user_id \in UserIds, utcnow \in Clock :
          LogSession(user_id, "session_1", GoodAnalysis, PyNone, SomeTranscript,
                     PyNone, PyNone, PyNone, "none", utcnow)
    \/ \E auth_header \in AuthHeaders, url_user_id \in UserIdsAsked :
          HandleUserAnalytics(auth_header, url_user_id)

SpecTokens == InitSpec /\ [][NextTokens]_vars

\* how many seedings the runs below follow
MaxSeedings == 2

\* the application starts and restarts, the store failing at any point of the
\* seeding; users register, record sessions and delete their accounts
NextSeed ==
    \/ \E fail \in SeedFailPoints :
          /\ users # {} \/ seeded.user < MaxSeedings
          /\ Startup(fail)
    \/ RegisterUser("alice", "alice@spiko.ai", "pw")
    \/ \E user_id \in UserIds :
          /\ NextId(sessions) <= MaxSessionId
          /\ LogSession(user_id, "session_1", GoodAnalysis, PyNone, SomeTranscript,
                        PyNone, PyNone, PyNone, "none", Today)
    \/ \E user_id \in UserIds : DeleteUser(user_id, "none")

SpecSeed == InitSpec /\ [][NextSeed]_vars

\* the analyses that concurrent requests record: one accepted, one refused
ConcurrentAnalyses == {GoodAnalysis, PyNone}

\* the identifiers a detail request may name: those that log_session has
\* written or is writing, and the next one
RecordedIdsAsked == Logged \cup {r.id : r \in Uncommitted.sessions} \cup {NextId(sessions)}

\* the steps of the log_session calls in progress
LogSessionSteps ==
    \/ \E rid \in Running : InsertUsage(rid)
    \/ \E rid \in Running : InsertFeedback(rid)
    \/ \E rid \in Running : CommitLogSession(rid)

\* the templates of the application, practised in turn: every recording is
\* of another template than the one before
TemplatesInTurn == <<"session_1", "session_2", "session_3", "session_4">>
TemplateInTurn ==
    TemplatesInTurn[((Cardinality(Logged) + Cardinality(Recording)) % Len(TemplatesInTurn)) + 1]

\* the users who registered themselves
RegisteredIds == {u.id : u \in {x \in users : x.username # "SpikoUser"}}

\* registered users record sessions while another request reads their
\* histories or the details of their sessions, the steps interleaved in every
\* order; readers do not write, so one reader at a time is followed
NextConcurrent ==
    \/ ~started /\ Startup("none")
    \/ RegisteredIds = {} /\ RegisterUser("alice", "alice@spiko.ai", "pw")
    \/ \E user_id \in RegisteredIds, analysis_data \in ConcurrentAnalyses :
          BeginLogSession(user_id, TemplateInTurn, analysis_data, SomeTranscript)
    \/ LogSessionSteps
    \/ \E session_usage_id \in RecordedIdsAsked :
          Running = Recording /\ BeginSessionAnalytics(session_usage_id)
    \/ \E rid \in Running : LoadFeedback(rid)
    \/ \E user_id \in RegisteredIds \cup {NextId(users)} :
          Running = Recording /\ BeginUserAnalytics(user_id)
    \/ \E rid \in Running : LoadNextFeedback(rid)

SpecConcurrent == InitDeployed /\ [][NextConcurrent]_vars

\* the names and addresses that requests send, one of them with spaces around
NamesSent == {"alice", "bob"}
EmailsSent == {"alice@spiko.ai", "user@spiko.ai"}

\* the JSON bodies of PUT /api/me
ProfileData ==
    [username : {NotGiven, " alice "}, email : {NotGiven, "alice@spiko.ai"}]

\* requests register users and change profiles, their queries and commits
\* interleaved in every order, the store locked at any write
NextUnique ==
    \/ ~started /\ Startup("none")
    \/ \E username \in NamesSent, email \in EmailsSent :
          BeginRegister(username, email, "pw")
    \/ \E rid \in Running, busy \in BOOLEAN : CommitRegister(rid, busy)
    \/ \E user_id \in UserIdsAsked, data \in ProfileData : BeginUpdateProfile(user_id, data)
    \/ \E rid \in Running, busy \in BOOLEAN : QueryEmail(rid, busy)
    \/ \E rid \in Running, busy \in BOOLEAN : CommitUpdateProfile(rid, busy)

SpecUnique == InitSpec /\ [][NextUnique]_vars

\* the default user records sessions and deletes the account, the steps of the
\* requests interleaved in every order, on either store
NextDelete ==
    \/ ~started /\ Startup("none")
    \/ \E user_id \in UserIds, session_id_str \in SessionIdStrs :
          BeginLogSession(user_id, session_id_str, GoodAnalysis, SomeTranscript)
    \/ LogSessionSteps
    \/ \E user_id \in UserIds : BeginDelete(user_id)
    \/ \E rid \in Running : DeleteSessions(rid)
    \/ \E rid \in Running : CommitDelete(rid)

SpecDelete == InitDeployed /\ [][NextDelete]_vars

----------------------------------------------------------------------------
(* Properties of the schema validator, checked under SpecValidate *)

Called == vout # NotCalled

\* a number within [0, 9]; nan is within no interval
InRange(v) ==
    /\ v.t \in {"num", "int", "bool"}
    /\ ScoreMin * 10 <= Tenths(v)
    /\ Tenths(v) <= ScoreMax * 10

\* a number that is not within [0, 9]
OutsideRange(v) == IsIntOrFloat(v) /\ ~InRange(v)

HasFields(p, keys) == p.t = "dict" /\ keys \subseteq DOMAIN p.d
CriteriaOf(p) == p.d["criteria_scores"]
OverallOf(p) == p.d["overall_band"]

\* criteria_scores is a dict with the four criteria, all in range
GoodCriteria(cs) ==
    cs.t = "dict" /\ Criteria \subseteq DOMAIN cs.d /\ \A c \in Criteria : InRange(cs.d[c])

\* overall_band is a dict with a score in range
GoodOverall(ob) == ob.t = "dict" /\ "score" \in DOMAIN ob.d /\ InRange(ob.d["score"])

ValidPayload(p) ==
    HasFields(p, RequiredFields) /\ GoodCriteria(CriteriaOf(p)) /\ GoodOverall(OverallOf(p))

\* a valid payload from which required key k was removed
ValidWithout(p, k) ==
    /\ p.t = "dict"
    /\ DOMAIN p.d = RequiredFields \ {k}
    /\ k # "criteria_scores" => GoodCriteria(CriteriaOf(p))
    /\ k # "overall_band" => GoodOverall(OverallOf(p))

\* a valid payload in which the score of criterion c was moved outside [0, 9]
ValidButCriterion(p, c) ==
    /\ HasFields(p, RequiredFields)
    /\ CriteriaOf(p).t = "dict"
    /\ Criteria \subseteq DOMAIN CriteriaOf(p).d
    /\ OutsideRange(CriteriaOf(p).d[c])
    /\ \A o \in Criteria \ {c} : InRange(CriteriaOf(p).d[o])
    /\ GoodOverall(OverallOf(p))

\* a valid payload in which overall_band.score was moved outside [0, 9]
ValidButOverall(p) ==
    /\ HasFields(p, RequiredFields)
    /\ GoodCriteria(CriteriaOf(p))
    /\ OverallOf(p).t = "dict"
    /\ "score" \in DOMAIN OverallOf(p).d
    /\ OutsideRange(OverallOf(p).d["score"])

RejectedNaming(v, field) == v.kind = "return" /\ ~v.ok /\ v.reason.field = field

\* C6: validate_analysis_data is total: for every analysis object, also one
\* whose criteria_scores or overall_band is no mapping, it returns a pair
\* (is_valid, reason) and never raises.
C6_ValidatorNeverRaises == Called => vout.kind = "return"

\* C7: every payload with the three required keys, four criteria in [0, 9] and
\* an overall score in [0, 9] is accepted with (True, None); removing one
\* required key, or moving one score outside [0, 9], gives (False, reason) with
\* a reason naming that field.
C7_AcceptsValidRejectsEachDefect ==
    Called =>
        /\ ValidPayload(vin) => vout = Return(TRUE, NoReason)
        /\ \A k \in RequiredFields : ValidWithout(vin, k) => RejectedNaming(vout, k)
        /\ \A c \in Criteria : ValidButCriterion(vin, c) => RejectedNaming(vout, c)
        /\ ValidButOverall(vin) => RejectedNaming(vout, "overall_band")

\* a dict payload with the required keys and a dict criteria_scores in which
\* criterion a is absent, criterion b is out of range and the rest are fine
AbsentAndOutOfRange(p, a, b) ==
    /\ HasFields(p, RequiredFields)
    /\ CriteriaOf(p).t = "dict"
    /\ a # b
    /\ DOMAIN CriteriaOf(p).d \cap Criteria = Criteria \ {a}
    /\ LET x == CriteriaOf(p).d[b] IN x.t = "num" /\ ~InRange(x)
    /\ \A o \in Criteria \ {a, b} : InRange(CriteriaOf(p).d[o])

\* C8 as stated: all four presence tests (rule 3) come before any range test
\* (rule 4), so with one criterion absent and another out of range the reason
\* is the missing-criterion reason, whichever criterion is absent.
C8_MissingReportedBeforeRange ==
    Called =>
        \A a, b \in Criteria :
            AbsentAndOutOfRange(vin, a, b) => vout = Return(FALSE, MissingCriterion(a))

Position(c) == CHOOSE i \in 1..Len(expected_criteria) : expected_criteria[i] = c
Least(S) == CHOOSE i \in S : \A j \in S : i <= j

\* the criteria of a dict cs that are absent or hold a rejected score
Defective(cs) ==
    {i \in 1..Len(expected_criteria) :
        \/ expected_criteria[i] \notin DOMAIN cs.d
        \/ ScoreRejected(cs.d[expected_criteria[i]])}

\* C8 amended: the first failing check is reported, in the order: mapping
\* check; required keys in their listed order; then, criterion by criterion in
\* the listed order, presence followed by range of that criterion; then the
\* overall band.  With one criterion absent and another out of range the
\* reason is about whichever of the two comes first in the listed order.
C8_FirstFailingCheckPerCriterion ==
    Called =>
        /\ vin.t # "dict" =>
              vout = Return(FALSE, Reason("Analysis data must be a dictionary", "analysis_data"))
        /\ (vin.t = "dict" /\ ~HasFields(vin, RequiredFields)) =>
              LET k == Least({i \in 1..Len(required_fields) :
                                 required_fields[i] \notin DOMAIN vin.d})
              IN  vout = Return(FALSE, Reason("Missing required field", required_fields[k]))
        /\ (HasFields(vin, RequiredFields) /\ CriteriaOf(vin).t = "dict") =>
              LET cs == CriteriaOf(vin) IN
              IF Defective(cs) # {}
              THEN LET c == expected_criteria[Least(Defective(cs))] IN
                   vout = Return(FALSE, IF c \in DOMAIN cs.d THEN InvalidScore(c)
                                        ELSE MissingCriterion(c))
              ELSE vout.kind = "return" => (vout.ok \/ vout.reason.field = "overall_band")
        /\ \A a, b \in Criteria :
              AbsentAndOutOfRange(vin, a, b) =>
                  vout = Return(FALSE, IF Position(a) < Position(b)
                                       THEN MissingCriterion(a) ELSE InvalidScore(b))

\* an out-of-range criterion listed before an absent one: the range is reported
C8_Witness ==
    /\ Called
    /\ \E a, b \in Criteria :
          /\ AbsentAndOutOfRange(vin, a, b)
          /\ Position(b) < Position(a)
          /\ vout = Return(FALSE, InvalidScore(b))

HasExtraCriterion(p) ==
    /\ HasFields(p, RequiredFields)
    /\ CriteriaOf(p).t = "dict"
    /\ Criteria \subseteq DOMAIN CriteriaOf(p).d
    /\ DOMAIN CriteriaOf(p).d # Criteria

\* p with criteria_scores cut down to the four named criteria
WithoutExtra(p) ==
    PyDict([p.d EXCEPT !["criteria_scores"] =
               PyDict([c \in DOMAIN @.d \cap Criteria |-> @.d[c]])])

\* C9 as stated: criteria_scores must hold exactly the four named criteria, so
\* a payload with the four criteria and one more key is rejected.
C9_ExtraCriterionRejected ==
    (Called /\ HasExtraCriterion(vin) /\ ValidPayload(vin)) => ~Accepted(vout)

\* C9 amended: criteria_scores must hold the four named criteria, and any
\* further key is ignored: the verdict is the verdict of the same payload
\* without it, and no payload lacking one of the four is accepted.
C9_ExtraCriterionIgnored ==
    Called =>
        /\ HasExtraCriterion(vin) => vout = validate_analysis_data(WithoutExtra(vin))
        /\ Accepted(vout) => Criteria \subseteq DOMAIN CriteriaOf(vin).d

\* an accepted payload whose criteria_scores holds a fifth key
C9_Witness == Called /\ HasExtraCriterion(vin) /\ ValidPayload(vin) /\ Accepted(vout)

----------------------------------------------------------------------------
(* Properties of the session recorder and the store, checked under Spec *)

LoggedCall(c) == c.op = "log_session"
Succeeded(c) == LoggedCall(c) /\ c.ret # ReturnFalse
Rejects(analysis_data) ==
    LET v == validate_analysis_data(analysis_data) IN v.kind = "return" /\ ~v.ok

\* C1: log_session writes the (SessionUsage, FeedbackSummary) pair atomically:
\* when the store fails while the usage row is added, the feedback row is added
\* or the transaction is committed, neither new row exists after the call and
\* False is returned; when the call returns an id, exactly the usage row with
\* that id and the feedback row linked to it were added; in no case is one of
\* the two tables changed without the other.
C1_PairWrittenAtomically ==
    [][LoggedCall(call') =>
          /\ call'.fail \in WriteFailures =>
                sessions' = sessions /\ feedback' = feedback /\ call'.ret = ReturnFalse
          /\ Succeeded(call') =>
                \E s \in sessions', f \in feedback' :
                    /\ sessions' \ sessions = {s} /\ sessions \subseteq sessions'
                    /\ feedback' \ feedback = {f} /\ feedback \subseteq feedback'
                    /\ s.id = call'.ret.i
                    /\ f.session_usage_id = s.id
          /\ (sessions' = sessions) <=> (feedback' = feedback)]_vars

\* a commit that failed on valid data after an earlier call recorded a session
C1_Witness ==
    /\ LoggedCall(call)
    /\ call.fail = "commit"
    /\ call.ret = ReturnFalse
    /\ Accepted(validate_analysis_data(call.analysis_data))
    /\ Logged # {}

\* C2: when validate_analysis_data rejects analysis_data (actionable_insights
\* missing, for one), log_session leaves the store exactly as it was and
\* returns False.
C2_RejectedDataRecordsNothing ==
    [][(LoggedCall(call') /\ Rejects(call'.analysis_data)) =>
          /\ sessions' = sessions
          /\ feedback' = feedback
          /\ users' = users
          /\ call'.ret = ReturnFalse]_vars

\* a call without actionable_insights, the store working, returned False
C2_Witness ==
    /\ LoggedCall(call)
    /\ call.analysis_data = NoInsightsAnalysis
    /\ call.fail = "none"
    /\ call.ret = ReturnFalse
    /\ validate_analysis_data(call.analysis_data)
          = Return(FALSE, Reason("Missing required field", "actionable_insights"))

\* the analysis data session_usage row r was created from
SourceOf(r) == origin[r.id].source

\* C4 as stated: every session_usage row, whichever code path inserted it, was
\* created from analysis data that validate_analysis_data accepted.
C4_EveryRowValidated ==
    \A r \in sessions : Accepted(validate_analysis_data(SourceOf(r)))

\* C4 amended: every session_usage row that log_session inserted was created
\* from analysis data that validate_analysis_data accepted, and every row that
\* seed_database inserted comes from a sample that the validator was not asked
\* about and would have rejected.
C4_LoggedRowsValidated ==
    \A r \in sessions :
        IF origin[r.id].path = "log_session"
        THEN Accepted(validate_analysis_data(SourceOf(r)))
        ELSE origin[r.id].path = "seed_database" /\ Rejects(SourceOf(r))

\* the store holds sample rows and a row recorded by a request
C4_Witness ==
    /\ \E r \in sessions : origin[r.id].path = "seed_database"
    /\ \E r \in sessions : origin[r.id].path = "log_session"

\* the scores of the payload p, wherever p holds them
ScoresOf(p) ==
    IF p.t # "dict" THEN {}
    ELSE (IF "criteria_scores" \in DOMAIN p.d /\ CriteriaOf(p).t = "dict"
          THEN {CriteriaOf(p).d[c] : c \in DOMAIN CriteriaOf(p).d \cap Criteria}
          ELSE {})
         \cup
         (IF "overall_band" \in DOMAIN p.d /\ OverallOf(p).t = "dict"
             /\ "score" \in DOMAIN OverallOf(p).d
          THEN {OverallOf(p).d["score"]}
          ELSE {})

\* the stored band-scores structure holds the four criteria and the overall
\* score, each a number within [0, 9]
StoredScoresInRange(f) ==
    LET band_scores == Loads(f.band_scores) IN
    /\ band_scores.t = "dict"
    /\ Criteria \cup {"overall_band"} \subseteq DOMAIN band_scores.d
    /\ \A c \in Criteria : InRange(band_scores.d[c])
    /\ GoodOverall(band_scores.d["overall_band"])

\* C5: the band-scores structure of every feedback row has the four criteria
\* scores and the overall score numeric and within [0, 9], and a call whose
\* payload has a score outside that range persists nothing.
C5_StoredScoresWithinRange ==
    /\ \A f \in feedback : StoredScoresInRange(f)
    /\ (LoggedCall(call) /\ \E x \in ScoresOf(call.analysis_data) : ~InRange(x))
          => call.ret = ReturnFalse

\* C11: no exception escapes log_session: whatever the arguments are, analysis
\* data on which the validator itself raises included, and wherever the store
\* fails, the call returns the identifier of a stored row or False.
C11_NoExceptionEscapes ==
    LoggedCall(call) =>
        \/ call.ret = ReturnFalse
        \/ call.ret \in {ReturnId(r.id) : r \in sessions}

\* the validator raised on criteria_scores null and False came back
C11_Witness ==
    /\ LoggedCall(call)
    /\ validate_analysis_data(call.analysis_data).kind = "raise"
    /\ call.ret = ReturnFalse
    /\ \E r \in sessions : origin[r.id].path = "log_session"

\* C15: on success log_session returns the identifier of the session_usage row
\* it has just committed, and no stored row has an identifier that compares
\* equal to the failure marker False (that is, 0).
C15_IdentifierIsNotTheMarker ==
    [][/\ \A r \in sessions' : ~PyEquals(ReturnId(r.id), ReturnFalse)
       /\ Succeeded(call') =>
             \E r \in sessions' \ sessions :
                 /\ call'.ret = ReturnId(r.id)
                 /\ r.user_id = call'.user_id
                 /\ r.session_id_str = call'.session_id_str
                 /\ ~PyEquals(call'.ret, ReturnFalse)]_vars

\* the first request after the seeding got identifier 6
C15_Witness == Succeeded(call) /\ call.ret = ReturnId(6) /\ Cardinality(sessions) = 6

----------------------------------------------------------------------------
(* Properties of the stored duration, checked under SpecDuration *)

\* the session_usage row that the last call returned the id of
RowOf(c) == CHOOSE r \in sessions : r.id = c.ret.i

\* end - start in seconds when both timestamps are given, parse and can be
\* subtracted, and end is after start; 0 otherwise
TimestampSeconds(start_time, end_time) ==
    IF start_time.t = "isostr" /\ end_time.t = "isostr"
       /\ start_time.aware = end_time.aware /\ end_time.at > start_time.at
    THEN end_time.at - start_time.at
    ELSE 0

\* C3: after any calls of log_session, whatever the explicit durations and the
\* timestamps were, every session_usage row has duration > 0.
C3_DurationAlwaysPositive == \A r \in sessions : r.duration > 0

\* C10 as stated: the stored duration is the explicit argument when one is
\* supplied, otherwise the duration of the timestamps when one is derivable,
\* otherwise 900; with no duration and no timestamps it is 900, and it is
\* never 0.
C10_ExplicitElseTimestampsElseDefault ==
    Succeeded(call) =>
        /\ RowOf(call).duration =
              IF call.duration.t # "None" THEN call.duration.i
              ELSE IF TimestampSeconds(call.start_time, call.end_time) > 0
                   THEN TimestampSeconds(call.start_time, call.end_time)
                   ELSE 900
        /\ RowOf(call).duration # 0

\* C10 amended: the stored duration is the explicit argument when one is
\* supplied and is not 0; with no explicit argument it is the duration of the
\* timestamps when the transcript is not empty and both timestamps are given,
\* parse, can be subtracted and end is after start; in every other case, an
\* explicit 0 and an empty transcript included, it is 900.  With no duration
\* and no timestamps it is 900, and it is never 0.
C10_NonzeroExplicitElseMetricsElseDefault ==
    Succeeded(call) =>
        /\ RowOf(call).duration =
              IF call.duration.t # "None"
              THEN (IF call.duration.i # 0 THEN call.duration.i ELSE 900)
              ELSE IF Truthy(call.transcript)
                      /\ TimestampSeconds(call.start_time, call.end_time) > 0
                   THEN TimestampSeconds(call.start_time, call.end_time)
                   ELSE 900
        /\ (call.duration.t = "None" /\ call.start_time.t = "None"
            /\ call.end_time.t = "None") => RowOf(call).duration = 900
        /\ RowOf(call).duration # 0

\* an explicit 0 was replaced by 900
C10_Witness ==
    /\ Succeeded(call)
    /\ call.duration = PyInt(0)
    /\ RowOf(call).duration = 900
    /\ \E r \in sessions : r.duration = 30

----------------------------------------------------------------------------
(* Properties of the readers over legacy records, checked under SpecLegacy *)

\* stored text that does not deserialize into a mapping
NoMapping(text) == text = PyNone \/ text = Garbage \/ text.j # "object"

\* C12: get_user_analytics does not propagate a deserialization failure: when
\* the band-scores text of one of the user's sessions is unparsable, the call
\* still returns a result.
C12_HistoryReadHandlesUnparsable ==
    (/\ call.op = "get_user_analytics"
     /\ \E r \in sessions :
           /\ r.user_id = call.user_id
           /\ FeedbackOf(feedback, r.id) # NoRow
           /\ FeedbackOf(feedback, r.id).band_scores = Garbage)
    => call.ret.kind = "return"

\* the detail of session id is "not found"
DetailNotFound(id) ==
    \/ ~\E r \in sessions : r.id = id
    \/ ~\E x \in feedback : x.session_usage_id = id
    \/ \E x \in feedback :
          /\ x.session_usage_id = id
          /\ NoMapping(x.band_scores) \/ NoMapping(x.feedback_text)

\* C13: get_session_analytics answers 404 exactly when no session_usage row
\* has the id, the row has no linked feedback, or one of the two stored texts
\* does not deserialize into a mapping; otherwise it answers 200 with the view
\* of that row; it never raises.
C13_DetailNotFoundExactly ==
    call.op = "get_session_analytics" =>
        /\ call.ret.kind = "return"
        /\ call.ret.status = IF DetailNotFound(call.session_usage_id) THEN 404 ELSE 200
        /\ call.ret.status = 200 =>
              \E r \in sessions :
                  /\ r.id = call.session_usage_id
                  /\ call.ret.body.t = "dict"
                  /\ call.ret.body.d["session_usage_id"] = PyInt(r.id)
                  /\ call.ret.body.d["duration"] = PyInt(r.duration)
                  /\ call.ret.body.d["words_spoken"] = PyInt(r.words_spoken)
                  /\ DOMAIN call.ret.body.d["criteria_scores"].d = Criteria

\* the feedback text of the session asked for is a JSON array: 404
C13_Witness ==
    /\ call.op = "get_session_analytics"
    /\ call.ret.status = 404
    /\ \E x \in feedback :
          /\ x.session_usage_id = call.session_usage_id
          /\ x.feedback_text # PyNone
          /\ x.feedback_text # Garbage
          /\ x.feedback_text.j = "array"

----------------------------------------------------------------------------
(* Properties of the detail read back, checked under SpecRoundTrip *)

\* a == b for two dicts of numbers and strs
DictEquals(a, b) ==
    /\ a.t = "dict" /\ b.t = "dict"
    /\ DOMAIN a.d = DOMAIN b.d
    /\ \A k \in DOMAIN a.d : PyEquals(a.d[k], b.d[k])

\* the last call read the detail of a session that log_session recorded
ReadBackOfLogged ==
    /\ call.op = "get_session_analytics"
    /\ call.session_usage_id \in DOMAIN origin
    /\ origin[call.session_usage_id].path = "log_session"

\* C14: round trip: for every payload the validator accepts, once log_session
\* has returned identifier i the detail of i holds criteria_scores equal to the
\* four input criteria scores and overall_band equal to the input overall_band.
C14_DetailEqualsInput ==
    ReadBackOfLogged =>
        LET source == origin[call.session_usage_id].source
            body == call.ret.body
        IN  /\ call.ret.status = 200
            /\ \A c \in Criteria :
                  PyEquals(body.d["criteria_scores"].d[c], CriteriaOf(source).d[c])
            /\ DictEquals(body.d["overall_band"], OverallOf(source))

----------------------------------------------------------------------------
(* Properties of accounts and histories, checked under SpecAccounts *)

\* the feedback rows linked to a session of user u
FeedbackOfUser(u) ==
    {x \in feedback : \E r \in sessions : r.user_id = u /\ x.session_usage_id = r.id}

\* C16: after delete_user_account(u) answered 200 the store holds no user u,
\* no session_usage row of u and no feedback row linked to a former session of
\* u, and the rows of every other user are unchanged; after any other answer
\* nothing was removed.
C16_DeleteRemovesExactlyTheUser ==
    [][call'.op = "delete_user_account" =>
          IF call'.ret.status = 200
          THEN /\ users' = {x \in users : x.id # call'.user_id}
               /\ sessions' = {r \in sessions : r.user_id # call'.user_id}
               /\ feedback' = feedback \ FeedbackOfUser(call'.user_id)
               /\ \A x \in feedback' : \E r \in sessions' : x.session_usage_id = r.id
          ELSE /\ call'.ret.status \in {404, 500}
               /\ users' = users /\ sessions' = sessions /\ feedback' = feedback]_vars

\* a user who had recorded a session was deleted while another user's rows stay
C16_Witness ==
    /\ call.op = "delete_user_account"
    /\ call.ret.status = 200
    /\ call.had # {}
    /\ sessions # {}
    /\ users # {}

\* the overall score in the stored band scores of session r
StoredOverallScore(r) ==
    Loads(FeedbackOf(feedback, r.id).band_scores).d["overall_band"].d["score"]

\* C17: get_user_analytics(u) answers 404 when no user u exists; otherwise it
\* returns exactly the session_usage rows of u, in ascending order of date,
\* each with the overall score of its stored band scores, total_sessions equal
\* to their number and total_practice_time_seconds equal to the sum of their
\* durations.
C17_HistoryOfTheUser ==
    call.op = "get_user_analytics" =>
        /\ call.ret.kind = "return"
        /\ IF ~\E x \in users : x.id = call.user_id
           THEN call.ret.status = 404
           ELSE LET owned == {r \in sessions : r.user_id = call.user_id}
                    body == call.ret.body
                    progress == body.progress_over_time
                IN  /\ call.ret.status = 200
                    /\ body.user_id = call.user_id
                    /\ Len(progress) = Cardinality(owned)
                    /\ {progress[i].session_usage_id : i \in 1..Len(progress)}
                          = {r.id : r \in owned}
                    /\ \A i \in 1..Len(progress) - 1 : progress[i].date <= progress[i + 1].date
                    /\ \A i \in 1..Len(progress) :
                          \E r \in owned :
                              /\ r.id = progress[i].session_usage_id
                              /\ r.date = progress[i].date
                              /\ progress[i].overall_score = StoredOverallScore(r)
                    /\ body.total_sessions = Cardinality(owned)
                    /\ body.total_practice_time_seconds
                          = SumUpTo(owned, NextId(sessions) - 1)

\* a history whose order of dates is not the order of identifiers, read while
\* another user has sessions too
C17_Witness ==
    /\ call.op = "get_user_analytics"
    /\ call.ret.status = 200
    /\ \E i \in 1..Len(call.ret.body.progress_over_time) - 1 :
          call.ret.body.progress_over_time[i].session_usage_id
             > call.ret.body.progress_over_time[i + 1].session_usage_id
    /\ \E r \in sessions : r.user_id # call.user_id

----------------------------------------------------------------------------
(* Properties of the ranking, checked under SpecPopular *)

\* the number of session_usage rows of a template
TimesPractised(sid) == Cardinality({r \in sessions : r.session_id_str = sid})

\* C18: get_popular_sessions returns at most 5 entries, one per distinct
\* template, in non-increasing order of times_practiced; each times_practiced
\* is the number of session_usage rows of that template, and no template left
\* out has a strictly larger count than a returned one.
C18_PopularRanking ==
    call.op = "get_popular_sessions" =>
        LET top == call.ret.body
            returned == {top[i].session_id : i \in 1..Len(top)}
            stored == {r.session_id_str : r \in sessions}
        IN  /\ call.ret.status = 200
            /\ Len(top) <= 5
            /\ Len(top) = IF Cardinality(stored) < 5 THEN Cardinality(stored) ELSE 5
            /\ returned \subseteq stored
            /\ Cardinality(returned) = Len(top)
            /\ \A i \in 1..Len(top) :
                  top[i].times_practiced = TimesPractised(top[i].session_id)
            /\ \A i \in 1..Len(top) - 1 :
                  top[i].times_practiced >= top[i + 1].times_practiced
            /\ \A sid \in stored \ returned :
                  \A i \in 1..Len(top) : TimesPractised(sid) <= top[i].times_practiced

\* six templates are stored, five are returned, and the first was practised
\* more often than the last
C18_Witness ==
    /\ call.op = "get_popular_sessions"
    /\ Cardinality({r.session_id_str : r \in sessions}) = 6
    /\ Len(call.ret.body) = 5
    /\ call.ret.body[1].times_practiced > call.ret.body[5].times_practiced

----------------------------------------------------------------------------
(* Properties of the summary, checked under SpecSummary *)

\* the sum of all stored durations, in seconds
TotalSeconds == IF sessions = {} THEN 0 ELSE SumUpTo(sessions, NextId(sessions) - 1)

\* the returned total_hours_practiced, in hundredths of an hour
HoursReturned == call.ret.body.total_hours_practiced

\* C19 as stated: total_users is the number of users, total_sessions_run the
\* number of session_usage rows, and total_hours_practiced equals the sum of
\* all stored durations divided by 3600 (0 for an empty store).
C19_HoursAreTheQuotient ==
    call.op = "get_platform_summary" =>
        /\ call.ret.body.total_users = Cardinality(users)
        /\ call.ret.body.total_sessions_run = Cardinality(sessions)
        /\ HoursReturned * 3600 = TotalSeconds * 100

\* C19: total_users is the number of users, total_sessions_run the number of
\* session_usage rows, and total_hours_practiced is the sum of all stored
\* durations divided by 3600 and rounded to 2 decimals (0 for an empty store).
C19_HoursAreTheRoundedQuotient ==
    call.op = "get_platform_summary" =>
        /\ call.ret.status = 200
        /\ call.ret.body.total_users = Cardinality(users)
        /\ call.ret.body.total_sessions_run = Cardinality(sessions)
        /\ 2 * (HoursReturned * 3600 - TotalSeconds * 100) <= 3600
        /\ 2 * (TotalSeconds * 100 - HoursReturned * 3600) <= 3600
        /\ sessions = {} => HoursReturned = 0

\* a summary over two users whose total is no whole number of hundredths
C19_Witness ==
    /\ call.op = "get_platform_summary"
    /\ Cardinality(users) = 2
    /\ sessions # {}
    /\ (TotalSeconds * 100) % 3600 # 0

----------------------------------------------------------------------------
(* Properties of the analysis request, checked under SpecAnalyze *)

\* the request got as far as the write path: log_session was called
ReachedWritePath ==
    /\ call.op = "analyze_speech"
    /\ ~NoTranscript(call.data)
    /\ Truthy(Strip(call.data.d["transcript"]))
    /\ call.ai.kind = "json"

\* the session_usage row of the request is in the store
SessionRecorded ==
    /\ "session_usage_id" \in DOMAIN call.ret.body
    /\ \E r \in sessions :
          /\ r.id = call.ret.body.session_usage_id
          /\ r.user_id = call.user_id
          /\ origin[r.id] = [path |-> "log_session", source |-> call.ai.data]

\* C20: POST /api/analyze answers 400 when the analysis payload fails
\* validation in the write path and 500 when the combined write fails in the
\* store; it answers 200 only when the session was recorded.
C20_StatusMapping ==
    ReachedWritePath =>
        /\ Refused(validate_analysis_data(call.ai.data)) => call.ret.status = 400
        /\ (~Refused(validate_analysis_data(call.ai.data)) /\ call.fail # "none")
              => call.ret.status = 500
        /\ call.ret.status = 200 => SessionRecorded

----------------------------------------------------------------------------
(* Properties of the metrics calculator, checked under SpecMetrics *)

\* the whitespace-delimited tokens of a text, counted by where they end
Tokens(transcript) ==
    IF transcript.t # "text" THEN 0
    ELSE Cardinality({i \in 1..Len(transcript.chars) :
                         /\ transcript.chars[i] # " "
                         /\ (i = Len(transcript.chars) \/ transcript.chars[i + 1] = " ")})

\* a timestamp that is a datetime or a string that parses to one
Parseable(ts) == ts.t \in {"isostr", "datetime"}

\* the two timestamps are given but do not yield a difference
NoDifference(start_time, end_time) ==
    /\ Truthy(start_time) /\ Truthy(end_time)
    /\ \/ ~Parseable(start_time)
       \/ ~Parseable(end_time)
       \/ start_time.aware # end_time.aware

\* C22: calculate_session_metrics never raises, whatever the transcript and
\* the timestamps; when a timestamp does not parse or the two cannot be
\* subtracted, duration is 0, wpm is 0 and words_spoken is the transcript's
\* number of tokens.
C22_MetricsNeverRaise ==
    call.op = "calculate_session_metrics" =>
        /\ ~Raised(call.ret)
        /\ NoDifference(call.start_time, call.end_time) =>
              /\ call.ret.duration = 0
              /\ call.ret.wpm = 0
              /\ call.ret.words_spoken = Tokens(call.transcript)

\* three words with a start that does not parse and an end that does
C22_Witness ==
    /\ call.op = "calculate_session_metrics"
    /\ call.start_time = BadStr
    /\ call.end_time = IsoStr(60, TRUE)
    /\ call.ret.words_spoken = 3

\* a non-empty transcript and two timestamps that parse
BothParseable ==
    /\ call.op = "calculate_session_metrics"
    /\ Truthy(call.transcript)
    /\ Parseable(call.start_time) /\ Parseable(call.end_time)

\* end - start in seconds, or 0 if that is negative
MaxElapsed ==
    IF call.end_time.at > call.start_time.at THEN call.end_time.at - call.start_time.at
    ELSE 0

\* C23 as stated: with a non-empty transcript and both timestamps parseable,
\* words_spoken is the number of tokens, duration is max(end - start, 0) and
\* wpm is words_spoken / duration * 60 when duration > 0, else 0.  (wpm is
\* held in hundredths.)
C23_MetricsExact ==
    BothParseable =>
        /\ call.ret.words_spoken = Tokens(call.transcript)
        /\ call.ret.duration = MaxElapsed
        /\ call.ret.duration > 0 =>
              call.ret.wpm * call.ret.duration = call.ret.words_spoken * 60 * 100
        /\ call.ret.duration = 0 => call.ret.wpm = 0

\* C23: with a non-empty transcript and two parseable timestamps that are
\* both with or both without an offset, words_spoken is the number of tokens,
\* duration is max(end - start, 0) and wpm is words_spoken / duration * 60
\* rounded to 2 decimals when duration > 0, else 0.
C23_MetricsRounded ==
    (BothParseable /\ call.start_time.aware = call.end_time.aware) =>
        /\ call.ret.words_spoken = Tokens(call.transcript)
        /\ call.ret.duration = MaxElapsed
        /\ call.ret.duration > 0 =>
              /\ 2 * (call.ret.wpm * call.ret.duration - call.ret.words_spoken * 60 * 100)
                    <= call.ret.duration
              /\ 2 * (call.ret.words_spoken * 60 * 100 - call.ret.wpm * call.ret.duration)
                    <= call.ret.duration
        /\ call.ret.duration = 0 => call.ret.wpm = 0

\* the example: 7 words over 60 seconds give duration 60 and wpm 7.0
C23_Witness ==
    /\ BothParseable
    /\ call.start_time = IsoStr(0, TRUE) /\ call.end_time = DateTime(60, TRUE)
    /\ call.ret = [words_spoken |-> 7, duration |-> 60, wpm |-> 700]

----------------------------------------------------------------------------
(* Properties of the read operations, checked under SpecReads *)

ReadOps ==
    {"get_user_analytics", "get_platform_summary", "get_popular_sessions",
     "get_session_analytics"}

\* the arguments of a read
ReadArgs(c) ==
    CASE c.op = "get_user_analytics" -> c.user_id
      [] c.op = "get_session_analytics" -> c.session_usage_id
      [] OTHER -> 0

\* the entries of a list, without their order
Entries(list) == {list[i] : i \in 1..Len(list)}

\* two results of the same read that differ at most in the order of the rows
\* the query's ORDER BY does not tell apart, and in which templates of the
\* smallest returned count the limit kept
SameUpToTies(op, a, b) ==
    CASE op = "get_user_analytics" ->
            IF Raised(a) \/ Raised(b) THEN Raised(a) /\ Raised(b)
            ELSE IF a.status # 200 \/ b.status # 200 THEN a = b
            ELSE /\ [a.body EXCEPT !.progress_over_time = <<>>]
                       = [b.body EXCEPT !.progress_over_time = <<>>]
                 /\ Len(a.body.progress_over_time) = Len(b.body.progress_over_time)
                 /\ Entries(a.body.progress_over_time) = Entries(b.body.progress_over_time)
                 /\ \A i \in 1..Len(a.body.progress_over_time) :
                       a.body.progress_over_time[i].date = b.body.progress_over_time[i].date
      [] op = "get_popular_sessions" ->
            /\ a.status = b.status
            /\ Len(a.body) = Len(b.body)
            /\ \A i \in 1..Len(a.body) :
                  a.body[i].times_practiced = b.body[i].times_practiced
            /\ \A x \in Entries(a.body) :
                  x.times_practiced > a.body[Len(a.body)].times_practiced
                     => x \in Entries(b.body)
      [] OTHER -> a = b

\* a read step: the operation is one of the four reads
ReadStep == call'.op \in ReadOps

\* the step repeats the read before it
Repeated == call.op = call'.op /\ ReadArgs(call) = ReadArgs(call')

StoreUnchanged == users' = users /\ sessions' = sessions /\ feedback' = feedback

----------------------------------------------------------------------------
(* Properties of the authenticated history, checked under SpecTokens *)

\* the request carries a token of an existing user
TokenOfUser ==
    /\ call.op = "handle_user_analytics"
    /\ call.auth_header.kind = "token"
    /\ \E user \in users : user.id = call.auth_header.user_id

\* C28: GET /api/analytics/user/<user_id> with the token of an existing user a
\* returns a's history whatever user id the URL holds: the rows listed are
\* exactly a's, and never those of the user b of the URL.
C28_HistoryOfTheTokenUser ==
    TokenOfUser =>
        /\ call.ret.status = 200
        /\ call.ret.body.user_id = call.auth_header.user_id
        /\ Entries([i \in 1..Len(call.ret.body.progress_over_time) |->
                       call.ret.body.progress_over_time[i].session_usage_id])
              = {r.id : r \in {x \in sessions : x.user_id = call.auth_header.user_id}}

\* a's token with b's id in the URL, both users having sessions
C28_Witness ==
    /\ TokenOfUser
    /\ call.url_user_id # call.auth_header.user_id
    /\ \E r \in sessions : r.user_id = call.url_user_id
    /\ \E r \in sessions : r.user_id = call.auth_header.user_id
    /\ call.ret.status = 200

\* the request committed a session_usage row and the feedback row linked to it
PairCommitted ==
    /\ call.new # {}
    /\ \A id \in call.new :
          /\ \E r \in sessions : r.id = id
          /\ \E x \in feedback : x.session_usage_id = id

\* C29: the success response of POST /api/analyze holds the key
\* session_usage_id if and only if log_session committed the pair of that
\* request, and its value is then the identifier of the session_usage row the
\* request created.
C29_IdentifierIffCommitted ==
    (call.op = "analyze_speech" /\ call.ret.status = 200) =>
        /\ ("session_usage_id" \in DOMAIN call.ret.body) <=> PairCommitted
        /\ "session_usage_id" \in DOMAIN call.ret.body
              => call.new = {call.ret.body.session_usage_id}

\* C30: in the running application, where session_usage rows are written by
\* the startup seeding and by POST /api/analyze only, every stored row has
\* duration 900, whatever transcript was submitted.
C30_EveryDurationIsTheDefault ==
    \A r \in sessions : r.duration = 900

\* two rows recorded for transcripts of different length
C30_Witness ==
    \E r1, r2 \in sessions :
        /\ r1.id \in Logged /\ r2.id \in Logged
        /\ r1.words_spoken # r2.words_spoken
        /\ r1.duration = 900 /\ r2.duration = 900

----------------------------------------------------------------------------
(* Properties of the seeding, checked under SpecSeed *)

\* C26: over any sequence of application starts, registrations, session logs
\* and account deletions, seed_database inserts the default user and the five
\* sample sessions at most once, and a start that finds existing data inserts
\* nothing.
C26_SeededAtMostOnce ==
    [][call'.op = "startup" =>
          /\ (users # {} \/ sessions # {} \/ feedback # {}) =>
                (users' = users /\ sessions' = sessions /\ feedback' = feedback)
          /\ seeded'.user <= 1
          /\ seeded'.samples <= 1]_vars

----------------------------------------------------------------------------
(* Properties of concurrent requests, checked under SpecConcurrent *)

\* the feedback rows of session_usage row id
FeedbackRowsOf(id) == {fb \in feedback : fb.session_usage_id = id}

\* log_session has written row id, or is writing it
WrittenByLogSession(id) == id \in Logged \cup {r.id : r \in Uncommitted.sessions}

\* the last call was a detail request that found a row written by log_session
DetailOfLogged ==
    /\ call.op = "get_session_analytics"
    /\ WrittenByLogSession(call.session_usage.id)

\* the last call was a history with a row written by log_session
HistoryOfLogged ==
    /\ call.op = "get_user_analytics"
    /\ call.ret.kind = "return" /\ call.ret.status = 200
    /\ \E i \in 1..Len(call.ret.body.progress_over_time) :
          WrittenByLogSession(call.ret.body.progress_over_time[i].session_usage_id)

\* C21: in every interleaving of log_session calls with readers, a detail
\* request that finds a session_usage row written by log_session finds its
\* feedback too, a history shows the scores of every such row, and a
\* log_session call that returns an identifier has committed its own pair: the
\* session_usage row of its user and template and exactly one feedback row.
C21_NoHalfWrittenPair ==
    /\ DetailOfLogged => call.ret.status = 200
    /\ HistoryOfLogged =>
          LET progress == call.ret.body.progress_over_time
          IN  \A i \in 1..Len(progress) :
                 WrittenByLogSession(progress[i].session_usage_id) =>
                    /\ progress[i].scores # EmptyDict
                    /\ progress[i].overall_score # PyNone
    /\ (call.op = "log_session" /\ ~Refused(validate_analysis_data(call.analysis_data))) =>
          /\ call.ret.t = "int"
          /\ \E r \in sessions :
                /\ r.id = call.ret.i
                /\ r.user_id = call.user_id
                /\ r.session_id_str = call.session_id_str
          /\ Cardinality(FeedbackRowsOf(call.ret.i)) = 1
          /\ \A fb \in feedback :
                Cardinality({x \in feedback : x.id = fb.id}) = 1

\* a reader has answered with a row of log_session while another log_session
\* call, for another template, holds rows it has not committed
C21_Witness ==
    /\ DetailOfLogged \/ HistoryOfLogged
    /\ \E rid \in Recording :
          /\ inflight[rid].pending.sessions # {}
          /\ \A p \in inflight[rid].pending.sessions :
                \A id \in Logged \cap {r.id : r \in sessions} :
                   (CHOOSE r \in sessions : r.id = id).session_id_str # p.session_id_str

----------------------------------------------------------------------------
(* Properties of concurrent account requests, checked under SpecUnique *)

\* C25: after any sequence and any interleaving of register_user and
\* update_user_profile requests, two requests that both passed the existence
\* check for the same name or address included, no two users rows have the
\* same username and no two have the same email.
C25_UsernamesAndEmailsUnique ==
    \A x, y \in users :
        x.id # y.id => x.username # y.username /\ x.email # y.email

\* a request passed the existence checks and the store refused its write,
\* because another request had committed the same name or address meanwhile
C25_Witness ==
    /\ call.op \in {"register_user", "update_user_profile"}
    /\ call.checked
    /\ \/ call.ret = Raise("IntegrityError")
       \/ /\ call.op = "update_user_profile"
          /\ call.ret.kind = "return" /\ call.ret.status = 500
          /\ \E x \in users :
                /\ x.id # call.user_id
                /\ x.username = call.data.username \/ x.email = call.data.email
    /\ Cardinality(users) >= 2

----------------------------------------------------------------------------
(* Properties of a deletion among recordings, checked under SpecDelete *)

\* the feedback rows whose session_usage row is gone, the session_usage rows
\* whose user is gone
OrphanFeedback == {x \in feedback : ~\E r \in sessions : r.id = x.session_usage_id}
OrphanSessions == {r \in sessions : ~\E u \in users : u.id = r.user_id}

\* C27: for every interleaving of delete_user_account(u) with a log_session
\* call of the same user u, authenticated before the deletion, once both have
\* finished no feedback row references a session_usage row that does not
\* exist and no session_usage row references a user that does not exist.
C27_ReferentialIntegrity ==
    Running = {} => OrphanFeedback = {} /\ OrphanSessions = {}

=============================================================================
